---- MODULE Spec2Model ----
(***************************************************************************)
(* BookHarmony: the backend-proxy query SDK (class QueryBuilder) and the   *)
(* session storage it shares with the authentication library.              *)
(*                                                                         *)
(* A JavaScript value that may be undefined is a sequence of length 0      *)
(* (undefined) or 1 (the value).  A text (a request or response body, a    *)
(* stored session record) is a string; a parsed JSON value is a record.    *)
(***************************************************************************)
EXTENDS Integers, Sequences, FiniteSets, TLC

VARIABLES
  env,        \* import.meta.env: VITE_PROJECT_ID, VITE_ANYX_SERVER_URL
  storage,    \* localStorage item 'anyx.auth.session' (undefined = no item)
  location,   \* window.location.href
  builder,    \* the fields of each QueryBuilder instance
  log,        \* history: the configuration calls made on each builder
  execs,      \* the calls of execute(): position, request in flight, counts
  nextExec,   \* number of execute() calls made so far, plus one
  outcome,    \* the execution that settled last, as its caller observes it
  provider,   \* the state of the AuthProvider component
  svc,        \* the call of a friendService function that is in progress
  db,         \* the backend: the rows of each table
  page        \* the Dashboard component: its state and its running loaders

vars ==
  <<env, storage, location, builder, log, execs, nextExec, outcome, provider, svc,
    db, page>>

----------------------------------------------------------------------------
(* Bounds of the model *)

\* configuration calls made on one builder
MaxCalls == 2

\* calls of execute() in one run
MaxExec == 2

----------------------------------------------------------------------------
(* JavaScript values *)

Undefined == <<>>

Some(v) == <<v>>

\* truthiness of a string: '' is falsy
Truthy(s) == s # ""

\* a || b on strings
OrElse(a, b) == IF Truthy(a) THEN a ELSE b

BuilderIds == {"q1"}

Tables == {"users", "friendships"}

Columns == {"id", "status"}

\* arguments of the filter operators, by their JSON text
Scalars == {"1"}

Patterns == {"%a%"}

Lists == {"[1,2]"}

\* field maps (rows), by their source text
FieldMaps == {"{a:1}", "{b:2}"}

\* the argument of insert(): a single field map or an array of field maps
InsertArgs ==
  {[isArray |-> FALSE, obj |-> m, elems |-> <<>>] : m \in FieldMaps}
    \cup {[isArray |-> TRUE, obj |-> "", elems |-> s] :
            s \in {<<>>, <<"{a:1}", "{b:2}">>, <<"{b:2}", "{a:1}">>}}

SelectArgs == {Undefined, Some("id"), Some("")}

AscendingArgs == {Undefined, Some(TRUE), Some(FALSE)}

Counts == {5}

FilterOperators ==
  {"eq", "neq", "gt", "gte", "lt", "lte", "like", "ilike", "in", "is"}

ModeCalls == {"select", "insert", "update", "delete"}

----------------------------------------------------------------------------
(* class QueryBuilder: construction and the configuration methods.  Each   *)
(* method is an operator from the builder's fields to its fields after the *)
(* call; every method returns this.                                        *)

\* a builder constructed in single-row mode
QueryBuilderSingleRow(table) ==
  [ tableName    |-> table,
    selectClause |-> "*",
    filtersList  |-> <<>>,
    orderList    |-> <<>>,
    limitValue   |-> Undefined,
    offsetValue  |-> Undefined,
    singleMode   |-> TRUE,
    operation    |-> Undefined,
    insertValues |-> Undefined,
    updateValues |-> Undefined ]

QueryBuilder(table) ==
  [ tableName    |-> table,
    selectClause |-> "*",
    filtersList  |-> <<>>,
    orderList    |-> <<>>,
    limitValue   |-> Undefined,
    offsetValue  |-> Undefined,
    singleMode   |-> FALSE,
    operation    |-> Undefined,
    insertValues |-> Undefined,
    updateValues |-> Undefined ]

QueryFilter(column, operator, value) ==
  [column |-> column, operator |-> operator, value |-> value]

\* select() that sets the columns and forgets the mode
selectColumnsOnly(self, columns) ==
  [self EXCEPT !.selectClause = IF columns = Undefined THEN "*" ELSE columns[1]]

\* select(columns = '*'): the default applies when the argument is undefined
select(self, columns) ==
  [self EXCEPT !.selectClause = IF columns = Undefined THEN "*" ELSE columns[1],
               !.operation = Some("select")]

eq(self, column, value) ==
  [self EXCEPT !.filtersList = Append(@, QueryFilter(column, "eq", value))]

\* neq() copied from eq() with the operator left as it was
neqAsEq(self, column, value) ==
  [self EXCEPT !.filtersList = Append(@, QueryFilter(column, "eq", value))]

neq(self, column, value) ==
  [self EXCEPT !.filtersList = Append(@, QueryFilter(column, "neq", value))]

gt(self, column, value) ==
  [self EXCEPT !.filtersList = Append(@, QueryFilter(column, "gt", value))]

gte(self, column, value) ==
  [self EXCEPT !.filtersList = Append(@, QueryFilter(column, "gte", value))]

lt(self, column, value) ==
  [self EXCEPT !.filtersList = Append(@, QueryFilter(column, "lt", value))]

lte(self, column, value) ==
  [self EXCEPT !.filtersList = Append(@, QueryFilter(column, "lte", value))]

like(self, column, value) ==
  [self EXCEPT !.filtersList = Append(@, QueryFilter(column, "like", value))]

ilike(self, column, value) ==
  [self EXCEPT !.filtersList = Append(@, QueryFilter(column, "ilike", value))]

in(self, column, values) ==
  [self EXCEPT !.filtersList = Append(@, QueryFilter(column, "in", values))]

is(self, column, value) ==
  [self EXCEPT !.filtersList = Append(@, QueryFilter(column, "is", value))]

\* order() whose direction is descending unless ascending is asked for
orderDescendingByDefault(self, column, ascending) ==
  [self EXCEPT !.orderList =
     Append(@, [column |-> column,
                ascending |-> IF ascending = Undefined THEN FALSE ELSE ascending[1]])]

\* order(column, options?): ascending is options?.ascending ?? true
order(self, column, ascending) ==
  [self EXCEPT !.orderList =
     Append(@, [column |-> column,
                ascending |-> IF ascending = Undefined THEN TRUE ELSE ascending[1]])]

limit(self, count) == [self EXCEPT !.limitValue = Some(count)]

offset(self, count) == [self EXCEPT !.offsetValue = Some(count)]

single(self) == [self EXCEPT !.singleMode = TRUE]

\* insert() that starts the insert from a clean filter list
insertClearsFilters(self, values) ==
  [self EXCEPT !.operation = Some("insert"),
               !.filtersList = <<>>,
               !.insertValues =
                  Some(IF values.isArray THEN values.elems ELSE <<values.obj>>)]

\* insert() that takes its argument for an array without looking
insertUnwrapped(self, values) ==
  [self EXCEPT !.operation = Some("insert"),
               !.insertValues = Some(values.elems)]

\* insert(values): Array.isArray(values) ? values : [values]
insert(self, values) ==
  [self EXCEPT !.operation = Some("insert"),
               !.insertValues =
                  Some(IF values.isArray THEN values.elems ELSE <<values.obj>>)]

update(self, values) ==
  [self EXCEPT !.operation = Some("update"), !.updateValues = Some(values)]

delete(self) == [self EXCEPT !.operation = Some("delete")]

\* supabase.from(table): new QueryBuilder(table)
from(table) == QueryBuilder(table)

----------------------------------------------------------------------------
(* The history of a builder: one record per configuration call *)

Call(name, column, value, columns, ascending, count, values) ==
  [ name |-> name, column |-> column, value |-> value, columns |-> columns,
    ascending |-> ascending, count |-> count, values |-> values ]

NoRows == [isArray |-> FALSE, obj |-> "", elems |-> <<>>]

FilterCall(name, column, value) ==
  Call(name, column, value, Undefined, Undefined, 0, NoRows)

SelectCall(columns) == Call("select", "", "", columns, Undefined, 0, NoRows)

OrderCall(column, ascending) ==
  Call("order", column, "", Undefined, ascending, 0, NoRows)

CountCall(name, count) == Call(name, "", "", Undefined, Undefined, count, NoRows)

PlainCall(name) == Call(name, "", "", Undefined, Undefined, 0, NoRows)

InsertCall(values) == Call("insert", "", "", Undefined, Undefined, 0, values)

UpdateCall(values) == Call("update", "", values, Undefined, Undefined, 0, NoRows)

\* the method a call record names, applied to the builder
Apply(self, c) ==
  CASE c.name = "select" -> select(self, c.columns)
    [] c.name = "eq"     -> eq(self, c.column, c.value)
    [] c.name = "neq"    -> neq(self, c.column, c.value)
    [] c.name = "gt"     -> gt(self, c.column, c.value)
    [] c.name = "gte"    -> gte(self, c.column, c.value)
    [] c.name = "lt"     -> lt(self, c.column, c.value)
    [] c.name = "lte"    -> lte(self, c.column, c.value)
    [] c.name = "like"   -> like(self, c.column, c.value)
    [] c.name = "ilike"  -> ilike(self, c.column, c.value)
    [] c.name = "in"     -> in(self, c.column, c.value)
    [] c.name = "is"     -> is(self, c.column, c.value)
    [] c.name = "order"  -> order(self, c.column, c.ascending)
    [] c.name = "limit"  -> limit(self, c.count)
    [] c.name = "offset" -> offset(self, c.count)
    [] c.name = "single" -> single(self)
    [] c.name = "insert" -> insert(self, c.values)
    [] c.name = "update" -> update(self, c.value)
    [] c.name = "delete" -> delete(self)

RECURSIVE ApplyChain(_, _)
\* a chained expression b.m1(..).m2(..)...: the calls applied left to right
ApplyChain(self, chain) ==
  IF chain = <<>> THEN self
  ELSE ApplyChain(Apply(self, Head(chain)), Tail(chain))

----------------------------------------------------------------------------
(* JSON texts and their parse *)

RowsText == "{\"rows\":[{\"id\":1}]}"

RowsTextSpaced == "{ \"rows\" : [ { \"id\" : 1 } ] }"

ErrorText == "{\"error\":\"duplicate key\"}"

MessageText == "{\"message\":\"not found\"}"

HtmlText == "<html>502</html>"

Tokens == {"t1"}

\* JSON.stringify of an AuthSession whose access_token is t
SessionText(t) == "{\"user\":{\"id\":\"u\"},\"access_token\":\"" \o t \o "\"}"

\* the JavaScript null, and its JSON text
Null == "null"

Users == {"u", "v", "w"}

\* JSON.stringify of an AuthSession of user u whose access_token is t
SessionOf(u, t) ==
  "{\"user\":{\"id\":\"" \o u \o "\"},\"access_token\":\"" \o t \o "\"}"

RequestIds == {"r1"}

\* rows of friend_requests: a request from one user to another
FriendRequests ==
  { row \in [ id : RequestIds, requester_id : Users, recipient_id : Users,
                status : {"pending", "accepted", "declined"} ] :
      row.requester_id # row.recipient_id }

\* the body the backend answers a single-row select with: the row under data
RequestText(row) ==
  "{\"data\":{\"id\":\"" \o row.id \o "\",\"requester_id\":\"" \o row.requester_id
    \o "\",\"recipient_id\":\"" \o row.recipient_id \o "\",\"status\":\""
    \o row.status \o "\"},\"error\":null}"

\* the body of an answer that carries no row
NoDataText == "{\"data\":null,\"error\":null}"

----------------------------------------------------------------------------
(* The backend: the tables of the migrations and the bodies that answer a  *)
(* query.  Column values are written as strings.                            *)

BookIds == {"b1", "b2"}

TableNames ==
  {"users", "friend_requests", "friendships", "user_books", "books",
   "lending_requests"}

\* the columns of a table that the application reads or writes
Fields(table) ==
  CASE table = "users"           -> <<"id", "email", "username", "display_name">>
    [] table = "friend_requests" -> <<"id", "requester_id", "recipient_id", "status">>
    [] table = "friendships"     -> <<"user_id", "friend_id", "status">>
    [] table = "user_books"      -> <<"user_id", "book_id">>
    [] table = "books"           -> <<"id", "isbn", "title", "author">>
    [] table = "lending_requests" -> <<"owner_id", "borrower_id", "status">>

\* the profile of user u
UserRow(u) ==
  [ id |-> u, email |-> u \o "@mail.io", username |-> u \o "_" \o u,
    display_name |-> u ]

UserRows == {UserRow(u) : u \in Users}

\* rows of friendships: CHECK (user_id != friend_id)
Friendships ==
  { row \in [ user_id : Users, friend_id : Users,
              status : {"accepted", "pending"} ] :
      row.user_id # row.friend_id }

UserBooks == [user_id : Users, book_id : BookIds]

BookRow(b) ==
  IF b = "b1"
    THEN [id |-> b, isbn |-> "9780441013593", title |-> "Dune", author |-> "Frank Herbert"]
  ELSE [id |-> b, isbn |-> "9780141439587", title |-> "Emma", author |-> "Jane Austen"]

BookRows == {BookRow(b) : b \in BookIds}

\* the states of a table: UNIQUE(user_id, friend_id) on friendships, one
\* friend request at most
TableStates(table) ==
  CASE table = "users"           -> SUBSET UserRows
    [] table = "friend_requests" -> {{}} \cup {{row} : row \in FriendRequests}
    [] table = "friendships"     ->
         { S \in SUBSET Friendships :
             \A r1, r2 \in S :
               (r1.user_id = r2.user_id /\ r1.friend_id = r2.friend_id) => r1 = r2 }
    [] table = "user_books"      -> SUBSET UserBooks
    [] table = "books"           -> SUBSET BookRows
    [] table = "lending_requests" -> {{}}

RECURSIVE SeqOf(_)
\* the rows of a result in the order the backend lists them
SeqOf(S) ==
  IF S = {} THEN <<>>
  ELSE LET row == CHOOSE r \in S : TRUE IN <<row>> \o SeqOf(S \ {row})

\* the table a row belongs to, by its columns
TableOf(row) ==
  CHOOSE table \in TableNames :
    DOMAIN row = {Fields(table)[i] : i \in DOMAIN Fields(table)}

RECURSIVE MembersText(_, _)
\* "f1":"v1","f2":"v2",... over the columns fs of a row
MembersText(row, fs) ==
  IF fs = <<>> THEN ""
  ELSE "\"" \o Head(fs) \o "\":\"" \o row[Head(fs)] \o "\""
         \o (IF Len(fs) > 1 THEN "," ELSE "") \o MembersText(row, Tail(fs))

RowText(row) == "{" \o MembersText(row, Fields(TableOf(row))) \o "}"

RECURSIVE RowsListText(_)
RowsListText(rows) ==
  IF rows = <<>> THEN ""
  ELSE RowText(Head(rows)) \o (IF Len(rows) > 1 THEN "," ELSE "")
         \o RowsListText(Tail(rows))

\* the body of an answer: one row under data (single) or an array of rows
DocumentText(doc) ==
  IF doc.single
    THEN "{\"data\":" \o RowText(doc.rows[1]) \o ",\"error\":null}"
  ELSE "{\"data\":[" \o RowsListText(doc.rows) \o "],\"error\":null}"

\* every answer that carries rows
Documents ==
  UNION { { [single |-> FALSE, rows |-> SeqOf(S)] : S \in TableStates(table) } :
          table \in TableNames }
    \cup { [single |-> TRUE, rows |-> <<row>>] :
             row \in UserRows \cup Friendships \cup UserBooks \cup BookRows }

\* the answers with their texts, and the texts
ParsedDocuments == {<<DocumentText(doc), doc>> : doc \in Documents}

DocumentTexts == {p[1] : p \in ParsedDocuments}

\* the data of the answer whose text is given: a row, or an array of rows
DocumentData(text) ==
  LET doc == (CHOOSE p \in ParsedDocuments : p[1] = text)[2]
  IN  IF doc.single THEN doc.rows[1] ELSE doc.rows

JsonValue(type, canon, error, message, access_token) ==
  [ ok |-> TRUE, type |-> type, canon |-> canon, error |-> error,
    message |-> message, access_token |-> access_token ]

SyntaxError ==
  [ ok |-> FALSE, type |-> "", canon |-> "", error |-> "", message |-> "",
    access_token |-> "" ]

\* JSON.parse / response.json(): the value of a text, or a SyntaxError.
\* canon is the value written without insignificant white space; the string
\* fields are the properties the SDK reads ('' when the property is missing).
JsonParse(text) ==
  CASE text = RowsText       -> JsonValue("object", RowsText, "", "", "")
    [] text = RowsTextSpaced -> JsonValue("object", RowsText, "", "", "")
    [] text = ErrorText      -> JsonValue("object", ErrorText, "duplicate key", "", "")
    [] text = MessageText    -> JsonValue("object", MessageText, "", "not found", "")
    [] text = "{}"           -> JsonValue("object", "{}", "", "", "")
    [] text = "[]"           -> JsonValue("array", "[]", "", "", "")
    [] text = "null"         -> JsonValue("null", "null", "", "", "")
    [] \E t \in Tokens : text = SessionText(t) ->
         JsonValue("object", text, "", "",
                   CHOOSE t \in Tokens : text = SessionText(t))
    [] \E u \in Users, t \in Tokens : text = SessionOf(u, t) ->
         JsonValue("object", text, "", "",
                   CHOOSE t \in Tokens : \E u \in Users : text = SessionOf(u, t))
    [] \E row \in FriendRequests : text = RequestText(row) ->
         JsonValue("object", text, "", "", "")
    [] text = NoDataText     -> JsonValue("object", NoDataText, "", "", "")
    [] text \in DocumentTexts -> JsonValue("object", text, "", "", "")
    [] OTHER                 -> SyntaxError

----------------------------------------------------------------------------
(* QueryBuilder.execute: the part that runs before the fetch is awaited *)

ProjectIds == {"", "p1"}

ServerUrls == {"", "https://anyx.dev"}

MissingProjectId ==
  "Database configuration error: Missing project ID. Please check your environment variables."

MissingServerUrl ==
  "Database configuration error: Missing server URL. Please check your environment variables."

SessionExpired == "Session expired. Please sign in again."

QueryFailed == "Query failed"

FailedToFetch == "Failed to fetch"

UnableToConnect ==
  "Unable to connect to the server. Please check your internet connection and try again. If the problem persists, the service may be temporarily unavailable."

Error(message) == [type |-> "Error", message |-> message]

TypeError(message) == [type |-> "TypeError", message |-> message]

\* a validation that forgets the server URL
ConfigurationErrorIdOnly(e) ==
  IF ~Truthy(e.projectId) THEN Some(Error(MissingProjectId)) ELSE Undefined

\* the two validations of the environment: the error thrown, if any
ConfigurationError(e) ==
  IF ~Truthy(e.projectId) THEN Some(Error(MissingProjectId))
  ELSE IF ~Truthy(e.backendUrl) THEN Some(Error(MissingServerUrl))
  ELSE Undefined

\* a key of the payload object; its value may be undefined
Key(v) == [has |-> TRUE, v |-> v]

NoKey == [has |-> FALSE, v |-> Undefined]

ArrayOf(elems) == [isArray |-> TRUE, obj |-> "", elems |-> elems]

ObjectOf(m) == [isArray |-> FALSE, obj |-> m, elems |-> <<>>]

\* this.insertValues / this.updateValues as the payload's values
InsertValues(self) ==
  IF self.insertValues = Undefined THEN Undefined
  ELSE Some(ArrayOf(self.insertValues[1]))

UpdateValues(self) ==
  IF self.updateValues = Undefined THEN Undefined
  ELSE Some(ObjectOf(self.updateValues[1]))

\* this.operation || 'select'
OperationOrSelect(self) ==
  IF self.operation = Undefined THEN "select" ELSE self.operation[1]

\* if (this.selectClause) payload.select = this.selectClause
SelectKey(self) ==
  IF Truthy(self.selectClause) THEN Key(Some(self.selectClause)) ELSE NoKey

\* the payload object built by execute
Payload(self) ==
  LET base == [ table |-> Key(Some(self.tableName)),
                operation |-> Key(Some(OperationOrSelect(self))),
                values |-> NoKey, select |-> NoKey, filters |-> NoKey,
                order |-> NoKey, limit |-> NoKey, offset |-> NoKey,
                single |-> NoKey ]
  IN  IF self.operation = Some("insert") THEN
        [base EXCEPT !.values = Key(InsertValues(self)),
                     !.select = SelectKey(self)]
      ELSE IF self.operation = Some("update") THEN
        [base EXCEPT !.values = Key(UpdateValues(self)),
                     !.filters = Key(Some(self.filtersList)),
                     !.select = SelectKey(self)]
      ELSE IF self.operation = Some("delete") THEN
        [base EXCEPT !.filters = Key(Some(self.filtersList))]
      ELSE
        [base EXCEPT !.select = Key(Some(OrElse(self.selectClause, "*"))),
                     !.filters = Key(Some(self.filtersList)),
                     !.order = Key(Some(self.orderList)),
                     !.limit = Key(self.limitValue),
                     !.offset = Key(self.offsetValue),
                     !.single = Key(Some(self.singleMode))]

\* JSON.stringify(payload): a key whose value is undefined is left out, so
\* each field of the body is undefined (no such key) or its value
JsonStringify(payload) ==
  [k \in DOMAIN payload |-> IF payload[k].has THEN payload[k].v ELSE Undefined]

\* a header built from whatever record parses, token or not
AuthHeaderAnyRecord(sessionStr) ==
  IF sessionStr = Undefined \/ ~Truthy(sessionStr[1])
    THEN [authorization |-> Undefined, warned |-> FALSE]
  ELSE LET session == JsonParse(sessionStr[1])
       IN  IF ~session.ok \/ session.type = "null"
             THEN [authorization |-> Undefined, warned |-> TRUE]
           ELSE [authorization |-> Some("Bearer " \o session.access_token),
                 warned |-> FALSE]

\* the Authorization header taken from the stored session, and whether the
\* stored record failed to parse (console.warn)
AuthHeader(sessionStr) ==
  IF sessionStr = Undefined \/ ~Truthy(sessionStr[1])
    THEN [authorization |-> Undefined, warned |-> FALSE]
  ELSE LET session == JsonParse(sessionStr[1])
       IN  IF ~session.ok \/ session.type = "null"
             THEN [authorization |-> Undefined, warned |-> TRUE]
           ELSE IF Truthy(session.access_token)
             THEN [authorization |-> Some("Bearer " \o session.access_token),
                   warned |-> FALSE]
           ELSE [authorization |-> Undefined, warned |-> FALSE]

QueryUrl(e) == e.backendUrl \o "/api/projects/" \o e.projectId \o "/query"

\* the argument of fetch
Request(self, e, sessionStr) ==
  [ url |-> QueryUrl(e),
    authorization |-> AuthHeader(sessionStr).authorization,
    body |-> JsonStringify(Payload(self)) ]

----------------------------------------------------------------------------
(* QueryBuilder.execute: the part that runs when the fetch has settled *)

StatusText(status) ==
  CASE status = 200 -> "OK"
    [] status = 304 -> "Not Modified"
    [] status = 400 -> "Bad Request"
    [] status = 401 -> "Unauthorized"
    [] status = 403 -> "Forbidden"
    [] status = 404 -> "Not Found"
    [] status = 500 -> "Internal Server Error"
    [] OTHER -> ""

\* response.ok
Ok(status) == status >= 200 /\ status <= 299

\* what the transport answers: the fetch promise rejects with an exception,
\* or fulfils with a response
Rejection(exception) ==
  [rejected |-> TRUE, exception |-> exception, status |-> 0, text |-> ""]

Response(status, text) ==
  [rejected |-> FALSE, exception |-> Error(""), status |-> status, text |-> text]

\* a result wrapped in the { data, error } envelope of supabase-js
ReturnEnvelope(value) ==
  [ kind |-> "return",
    value |-> Some([value EXCEPT !.canon = "{\"data\":" \o @ \o ",\"error\":null}"]),
    error |-> Undefined, authFailure |-> FALSE, console |-> <<>> ]

Return(value) ==
  [ kind |-> "return", value |-> Some(value), error |-> Undefined,
    authFailure |-> FALSE, console |-> <<>> ]

Throw(error, authFailure, console) ==
  [ kind |-> "throw", value |-> Undefined, error |-> Some(error),
    authFailure |-> authFailure, console |-> console ]

\* the message of a failed query: error.error || error.message || 'Query
\* failed', or the HTTP status line when the body is no JSON object
ErrorMessage(status, text) ==
  LET error == JsonParse(text)
  IN  IF error.ok /\ error.type # "null"
        THEN OrElse(error.error, OrElse(error.message, QueryFailed))
      ELSE "HTTP " \o ToString(status) \o ": " \o StatusText(status)

\* every failed query logged with console.error
LogLevelError(status) == "error"

\* console.warn for a 4xx status, console.error otherwise
LogLevel(status) == IF status >= 400 /\ status < 500 THEN "warn" ELSE "error"

\* an authentication check that takes every client error for a lost session
IsAuthFailureAnyClientError(status) == status >= 400 /\ status < 500

\* an authentication check that knows 401 only
IsAuthFailure401Only(status) == status = 401

IsAuthFailure(status) == status = 401 \/ status = 403

\* the body of the try block, from the settling of the fetch on
TryBlock(resp) ==
  IF resp.rejected THEN Throw(resp.exception, FALSE, <<>>)
  ELSE IF ~Ok(resp.status) THEN
    IF IsAuthFailure(resp.status)
      THEN Throw(Error(SessionExpired), TRUE, <<>>)
    ELSE Throw(Error(ErrorMessage(resp.status, resp.text)), FALSE,
               <<LogLevel(resp.status)>>)
  ELSE LET result == JsonParse(resp.text)
       IN  IF result.ok THEN Return(result)
           ELSE Throw([type |-> "SyntaxError", message |-> "Unexpected token"],
                      FALSE, <<>>)

IsNetworkError(error) ==
  error.type = "TypeError" /\ error.message = FailedToFetch

\* the catch block: a network error is replaced, any other error re-thrown
CatchBlock(thrown) ==
  IF IsNetworkError(thrown.error[1])
    THEN Throw(Error(UnableToConnect), thrown.authFailure,
               thrown.console \o <<"warn">>)
  ELSE thrown

\* the outcome of execute once the fetch has settled with resp
AfterFetch(resp) ==
  LET t == TryBlock(resp)
  IN  IF t.kind = "throw" THEN CatchBlock(t) ELSE t

----------------------------------------------------------------------------
(* The backend executing the body of a request against its tables *)

\* a filter of the body, on a row
Matches(row, f) ==
  CASE f.operator = "eq"  -> f.column \in DOMAIN row /\ row[f.column] = f.value
    [] f.operator = "neq" -> f.column \in DOMAIN row /\ row[f.column] # f.value
    [] f.operator = "in"  ->
         f.column \in DOMAIN row
           /\ \E i \in DOMAIN f.value : row[f.column] = f.value[i]
    [] OTHER -> FALSE

BodyFilters(body) == IF body.filters = Undefined THEN <<>> ELSE body.filters[1]

\* the rows of a table that pass every filter
Selected(rows, filters) ==
  {row \in rows : \A i \in DOMAIN filters : Matches(row, filters[i])}

\* DEFAULT of a column that an insert leaves out
Default(table, column) ==
  CASE column = "status" -> "pending"
    [] column = "id"     -> CHOOSE id \in RequestIds : TRUE
    [] OTHER             -> ""

\* a row of values as the table stores it
Stored(table, values) ==
  [ f \in {Fields(table)[i] : i \in DOMAIN Fields(table)} |->
      IF f \in DOMAIN values THEN values[f] ELSE Default(table, f) ]

\* the columns under a UNIQUE or PRIMARY KEY constraint
UniqueKey(table, row) ==
  CASE table = "users"           -> <<row.id>>
    [] table = "friend_requests" -> <<row.requester_id, row.recipient_id>>
    [] table = "friendships"     -> <<row.user_id, row.friend_id>>
    [] table = "user_books"      -> <<row.user_id, row.book_id>>
    [] table = "books"           -> <<row.isbn>>
    [] OTHER                     -> row

\* an insert that breaks a UNIQUE constraint
Conflicts(table, rows, new) ==
  \/ \E r \in rows, n \in new : UniqueKey(table, r) = UniqueKey(table, n)
  \/ \E n1, n2 \in new : n1 # n2 /\ UniqueKey(table, n1) = UniqueKey(table, n2)

\* a row after an update with the given values
Updated(row, values) ==
  [f \in DOMAIN row |-> IF f \in DOMAIN values THEN values[f] ELSE row[f]]

\* the backend's answer to a body over the tables d, and the tables after it
Served(d, body) ==
  LET table == body.table[1]
      hit   == Selected(d[table], BodyFilters(body))
      new   == {Stored(table, body.values[1].elems[i]) :
                  i \in DOMAIN body.values[1].elems}
  IN  CASE body.operation = Some("insert") ->
             IF Conflicts(table, d[table], new)
               THEN [response |-> Response(400, ErrorText), db |-> d]
             ELSE [ response |-> Response(200, NoDataText),
                    db |-> [d EXCEPT ![table] = d[table] \cup new] ]
        [] body.operation = Some("update") ->
             [ response |-> Response(200, NoDataText),
               db |-> [d EXCEPT ![table] =
                         (d[table] \ hit)
                           \cup {Updated(row, body.values[1].obj) : row \in hit}] ]
        [] body.operation = Some("delete") ->
             [ response |-> Response(200, NoDataText),
               db |-> [d EXCEPT ![table] = d[table] \ hit] ]
        [] OTHER ->
             [ response |->
                 Response(200,
                   IF body.single = Some(TRUE)
                     THEN IF Cardinality(hit) = 1
                            THEN DocumentText([single |-> TRUE, rows |-> SeqOf(hit)])
                          ELSE NoDataText
                   ELSE DocumentText([single |-> FALSE, rows |-> SeqOf(hit)])),
               db |-> d ]

\* the tables after the transport has answered a body with resp: the
\* backend's own answer means that it executed the body
Executed(d, body, resp) ==
  IF resp = Served(d, body).response THEN Served(d, body).db ELSE d

----------------------------------------------------------------------------
(* The authentication library (backend mode) and the AuthProvider           *)
(* component.  A session object is written as its JSON text.                *)

\* session?.user ?? null, by the user's id
SessionUser(session) ==
  IF \E u \in Users, t \in Tokens : session = SessionOf(u, t)
    THEN CHOOSE u \in Users : \E t \in Tokens : session = SessionOf(u, t)
  ELSE Null

\* getSession(): the stored session, or null; a record that cannot be read
\* is cleared.  The sessions here carry no expires_at.
getSession(item) ==
  IF item = Undefined \/ ~Truthy(item[1])
    THEN [session |-> Null, cleared |-> FALSE]
  ELSE LET session == JsonParse(item[1])
       IN  IF ~session.ok \/ session.type = "null"
             THEN [session |-> Null, cleared |-> TRUE]
           ELSE [session |-> session.canon, cleared |-> FALSE]

\* the component before its effect has run; heard and tick are history: the
\* detail of the last notification its listener received, and a bit that
\* flips with each one
Unmounted ==
  [ mounted |-> FALSE, session |-> Null, user |-> Null, loading |-> TRUE,
    heard |-> Undefined, tick |-> FALSE ]

\* a listener that takes the session and leaves the user as it was
handleAuthChangeSessionOnly(p, detail) ==
  IF ~p.mounted THEN p
  ELSE [p EXCEPT !.session = detail, !.heard = Some(detail), !.tick = ~@]

\* the listener of 'auth-session-change', called by dispatchEvent
handleAuthChange(p, detail) ==
  IF ~p.mounted THEN p
  ELSE [p EXCEPT !.session = detail, !.user = SessionUser(detail),
                 !.heard = Some(detail), !.tick = ~@]

----------------------------------------------------------------------------
(* friendService: the data of a call *)

Timestamps == {"2026-01-01T00:00:00.000Z"}

IdleService ==
  [ op |-> "", pc |-> "idle", requestId |-> "", userId |-> "",
    request |-> Undefined, sent |-> <<>>, error |-> Undefined, console |-> <<>>,
    args |-> <<>>, locals |-> <<>>, result |-> Undefined ]

\* const { data } = result: a row, or undefined when data is null or missing
Data(result) ==
  IF \E row \in FriendRequests : result.canon = RequestText(row)
    THEN Some(CHOOSE row \in FriendRequests : result.canon = RequestText(row))
  ELSE IF result.canon \in DocumentTexts THEN Some(DocumentData(result.canon))
  ELSE Undefined

\* the catch block of a service function: console.error and re-throw
Failed(s, error) ==
  [s EXCEPT !.pc = "rejected", !.error = Some(error), !.console = Append(@, "error")]

\* await of a builder made by supabase.from(table) and the chained calls:
\* its then() runs execute() up to the fetch, which is sent or fails on the
\* environment; the function waits at pc
Awaiting(s, table, chain, pc) ==
  IF ConfigurationError(env) # Undefined
    THEN Failed(s, ConfigurationError(env)[1])
  ELSE [s EXCEPT !.pc = pc,
                 !.sent = Append(@, Request(ApplyChain(from(table), chain), env, storage))]

\* a friendship recorded for the requester only
FriendshipRowsOneWay(request) ==
  << [ user_id |-> request.requester_id, friend_id |-> request.recipient_id,
       status |-> "accepted" ] >>

\* the two rows acceptFriendRequest inserts
FriendshipRows(request) ==
  << [ user_id |-> request.requester_id, friend_id |-> request.recipient_id,
       status |-> "accepted" ],
     [ user_id |-> request.recipient_id, friend_id |-> request.requester_id,
       status |-> "accepted" ] >>

\* return value
Returns(s, value) == [s EXCEPT !.pc = "resolved", !.result = Some(value)]

\* email.split('@')[0] on the addresses in use
LocalPart(email) ==
  IF \E u \in Users : email = u \o "@mail.io"
    THEN CHOOSE u \in Users : email = u \o "@mail.io"
  ELSE email

\* the object ensureUserExists hands to insert(); userId.substring(0, 8) of
\* a short id is the id
NewUser(userId, email) ==
  [ id |-> userId, email |-> email,
    username |-> LocalPart(email) \o "_" \o userId,
    display_name |-> LocalPart(email) ]

\* const { data } = result as a JavaScript value: the row, or null
DataOrNull(result) == IF Data(result) = Undefined THEN Null ELSE Data(result)[1]

\* ensureUserExists from the settling of an await on
EnsureStep(s, o) ==
  IF o.kind = "throw" THEN Failed(s, o.error[1])
  ELSE IF o.value[1].type = "null"
    THEN Failed(s, TypeError("Cannot destructure property 'data' of null"))
  ELSE CASE s.pc = "select" ->
              IF Data(o.value[1]) # Undefined THEN Returns(s, Data(o.value[1])[1])
              ELSE Awaiting(s, "users",
                            << InsertCall(ObjectOf(NewUser(s.args[1], s.args[2]))),
                               SelectCall(Undefined),
                               PlainCall("single") >>,
                            "insert")
         [] s.pc = "insert" ->
              IF Truthy(o.value[1].error)
                THEN Failed(s, Error("Failed to create user: " \o o.value[1].error))
              ELSE Returns(s, DataOrNull(o.value[1]))

\* declineFriendRequest from the settling of an await on
DeclineStep(s, o, now) ==
  IF o.kind = "throw" THEN Failed(s, o.error[1])
  ELSE CASE s.pc = "select" ->
              IF o.value[1].type = "null"
                THEN Failed(s, TypeError("Cannot destructure property 'data' of null"))
              ELSE IF Data(o.value[1]) = Undefined
                THEN Failed(s, Error("Friend request not found"))
              ELSE Awaiting([s EXCEPT !.request = Data(o.value[1])],
                            "friend_requests",
                            << UpdateCall([status |-> "declined", updated_at |-> now]),
                               FilterCall("eq", "id", s.requestId) >>,
                            "update")
         [] s.pc = "update" -> [s EXCEPT !.pc = "resolved"]

\* removeFriend from the settling of an await on
RemoveStep(s, o) ==
  IF o.kind = "throw" THEN Failed(s, o.error[1])
  ELSE CASE s.pc = "delete" ->
              Awaiting(s, "friendships",
                       << PlainCall("delete"),
                          FilterCall("eq", "user_id", s.args[2]),
                          FilterCall("eq", "friend_id", s.args[1]) >>,
                       "deleteBack")
         [] s.pc = "deleteBack" -> [s EXCEPT !.pc = "resolved"]

\* sendFriendRequest from the settling of an await on
SendStep(s, o) ==
  IF o.kind = "throw" THEN Failed(s, o.error[1])
  ELSE IF o.value[1].type = "null"
    THEN Failed(s, TypeError("Cannot destructure property 'data' of null"))
  ELSE LET data == Data(o.value[1])
       IN  CASE s.pc = "recipient" ->
                  IF data = Undefined THEN Failed(s, Error("User not found"))
                  ELSE IF data[1].id = s.userId
                    THEN Failed(s, Error("You cannot send a friend request to yourself"))
                  ELSE Awaiting([s EXCEPT !.locals = [recipient |-> data[1]]],
                                "friend_requests",
                                << SelectCall(Some("*")),
                                   FilterCall("eq", "requester_id", s.userId),
                                   FilterCall("eq", "recipient_id", data[1].id),
                                   PlainCall("single") >>,
                                "existingRequest")
             [] s.pc = "existingRequest" ->
                  IF data # Undefined THEN Failed(s, Error("Friend request already sent"))
                  ELSE Awaiting(s, "friendships",
                                << SelectCall(Some("*")),
                                   FilterCall("eq", "user_id", s.userId),
                                   FilterCall("eq", "friend_id", s.locals.recipient.id),
                                   FilterCall("eq", "status", "accepted"),
                                   PlainCall("single") >>,
                                "existingFriendship")
             [] s.pc = "existingFriendship" ->
                  IF data # Undefined THEN Failed(s, Error("Already friends"))
                  ELSE Awaiting(s, "friend_requests",
                                << InsertCall(ObjectOf(
                                     [ requester_id |-> s.userId,
                                       recipient_id |-> s.locals.recipient.id,
                                       status |-> "pending" ])),
                                   SelectCall(Undefined),
                                   PlainCall("single") >>,
                                "insert")
             [] s.pc = "insert" ->
                  IF Truthy(o.value[1].error)
                    THEN Failed(s, Error("Failed to send friend request: "
                                           \o o.value[1].error))
                  ELSE Returns(s, DataOrNull(o.value[1]))

----------------------------------------------------------------------------
(* Dashboard.addBookToCollection: the data of a call *)

\* the methods that the class QueryBuilder defines
MethodNames ==
  { "select", "eq", "neq", "gt", "gte", "lt", "lte", "like", "ilike", "in",
    "is", "order", "limit", "offset", "single", "insert", "update", "delete",
    "execute", "then", "catch", "finally" }

\* the first call of a chain that names no method of the builder, if any:
\* calling it throws a TypeError
MissingMethod(chain) ==
  IF \A i \in DOMAIN chain : chain[i].name \in MethodNames THEN Undefined
  ELSE Some(chain[CHOOSE i \in DOMAIN chain :
                    /\ chain[i].name \notin MethodNames
                    /\ \A j \in 1..(i - 1) : chain[j].name \in MethodNames].name)

\* what fetchBookByISBN may have put in bookDetails: a row of books, or a
\* book of the catalogue that has no id yet
FetchedBooks == BookRows \cup {[BookRow(b) EXCEPT !.id = ""] : b \in BookIds}

\* the chain that creates or fetches the book
UpsertBook(book) ==
  << Call("upsert", "isbn", "", Undefined, Undefined, 0,
          ObjectOf([isbn |-> book.isbn, title |-> book.title, author |-> book.author])),
     SelectCall(Undefined),
     PlainCall("single") >>

\* the catch block: the toast 'Error adding book'
AddBookFailed(s, p) ==
  [ svc |-> [s EXCEPT !.pc = "resolved"],
    page |-> [p EXCEPT !.toast = Some("Error adding book")] ]

\* addBookToCollection from the settling of an await on
AddBookStep(s, p, o) ==
  IF o.kind = "throw" \/ o.value[1].type = "null" THEN AddBookFailed(s, p)
  ELSE IF Truthy(o.value[1].error) THEN AddBookFailed(s, p)
  ELSE CASE s.pc = "upsert" ->
              IF Data(o.value[1]) = Undefined THEN AddBookFailed(s, p)
              ELSE IF ConfigurationError(env) # Undefined THEN AddBookFailed(s, p)
              ELSE [ svc |-> Awaiting(s, "user_books",
                                      <<InsertCall(ObjectOf(
                                          [ user_id |-> s.userId,
                                            book_id |-> Data(o.value[1])[1].id,
                                            is_read |-> FALSE ]))>>,
                                      "insert"),
                     page |-> p ]
         [] s.pc = "insert" ->
              [ svc |-> [s EXCEPT !.pc = "resolved"],
                page |-> [p EXCEPT !.toast = Some("Book added!"),
                                   !.bookDetails = Undefined, !.isbn = ""] ]

----------------------------------------------------------------------------
(* friendsCatalogService: the data of a call.  A select without single()   *)
(* is answered with an array of rows.                                       *)

SearchQueries == {"", "Dune"}

\* String.prototype.toLowerCase on the texts in use
ToLowerCase(s) ==
  CASE s = "Dune"          -> "dune"
    [] s = "Emma"          -> "emma"
    [] s = "Frank Herbert" -> "frank herbert"
    [] s = "Jane Austen"   -> "jane austen"
    [] OTHER               -> s

\* String.prototype.includes on the texts in use
Includes(s, q) == q = "" \/ s = q

\* the catch block of a catalog function: console.warn and return []
ReturnsEmpty(s) ==
  [s EXCEPT !.pc = "resolved", !.result = Some(<<>>), !.console = Append(@, "warn")]

\* an await inside the try block of a catalog function
CatalogAwaiting(s, table, chain, pc) ==
  IF ConfigurationError(env) # Undefined THEN ReturnsEmpty(s)
  ELSE Awaiting(s, table, chain, pc)

\* rows.map(row => row[column])
Column(rows, column) == [i \in DOMAIN rows |-> rows[i][column]]

RECURSIVE Distinct(_)
\* [...new Set(values)]: the first occurrence of each value, in order
Distinct(values) ==
  IF values = <<>> THEN <<>>
  ELSE LET init == Distinct(SubSeq(values, 1, Len(values) - 1))
           last == values[Len(values)]
       IN  IF \E i \in DOMAIN init : init[i] = last THEN init
           ELSE Append(init, last)

\* books.filter(...) of searchFriendsCatalog
FilteredBooks(books, searchQuery) ==
  IF searchQuery # "" 
    THEN SelectSeq(books,
           LAMBDA book :
             \/ Includes(ToLowerCase(book.title), ToLowerCase(searchQuery))
             \/ Includes(ToLowerCase(book.author), ToLowerCase(searchQuery))
             \/ (book.isbn # "" /\ Includes(book.isbn, ToLowerCase(searchQuery))))
  ELSE books

\* ownersMap.get(ownerId)
OwnerOf(owners, ownerId) ==
  IF \E i \in DOMAIN owners : owners[i].id = ownerId
    THEN Some(owners[CHOOSE i \in DOMAIN owners :
                       /\ owners[i].id = ownerId
                       /\ \A j \in DOMAIN owners : owners[j].id = ownerId => j <= i])
  ELSE Undefined

\* { ...book, owner_id, owner_username, owner_display_name }
FriendBook(book, ownerId, username, displayName) ==
  [ id |-> book.id, isbn |-> book.isbn, title |-> book.title,
    author |-> book.author, owner_id |-> ownerId, owner_username |-> username,
    owner_display_name |-> displayName ]

RECURSIVE OwnedBy(_, _, _)
\* the entries pushed for one book: one per owner found in ownersMap
OwnedBy(book, ownerIds, owners) ==
  IF ownerIds = <<>> THEN <<>>
  ELSE LET owner == OwnerOf(owners, Head(ownerIds))
       IN  (IF owner # Undefined
              THEN << FriendBook(book, Head(ownerIds), owner[1].username,
                                 Some(owner[1].display_name)) >>
            ELSE <<>>)
             \o OwnedBy(book, Tail(ownerIds), owners)

RECURSIVE FriendBooks(_, _, _)
\* the forEach over filteredBooks of searchFriendsCatalog
FriendBooks(books, userBooks, owners) ==
  IF books = <<>> THEN <<>>
  ELSE OwnedBy(Head(books),
               Column(SelectSeq(userBooks,
                                LAMBDA ub : ub.book_id = Head(books).id),
                      "user_id"),
               owners)
         \o FriendBooks(Tail(books), userBooks, owners)

\* the userBooks.map of getFriendBookDetails
BookDetails(book, userBooks, owners) ==
  [ i \in DOMAIN userBooks |->
      LET owner == OwnerOf(owners, userBooks[i].user_id)
      IN  FriendBook(book, userBooks[i].user_id,
                     IF owner # Undefined /\ Truthy(owner[1].username)
                       THEN owner[1].username ELSE "Unknown",
                     IF owner # Undefined THEN Some(owner[1].display_name)
                     ELSE Undefined) ]

\* data || []
RowsOrNone(data) == IF data = Undefined THEN <<>> ELSE data[1]

\* searchFriendsCatalog from the settling of an await on: o is what the
\* awaited query returned or threw
SearchStep(s, o) ==
  IF o.kind = "throw" \/ o.value[1].type = "null" THEN ReturnsEmpty(s)
  ELSE LET data == Data(o.value[1])
       IN  CASE s.pc = "friendships" ->
                  IF data = Undefined \/ Len(data[1]) = 0 THEN Returns(s, <<>>)
                  ELSE CatalogAwaiting(
                         [s EXCEPT !.locals =
                            [ friendships |-> data[1],
                              friendIds |-> Column(data[1], "friend_id") ]],
                         "user_books",
                         << SelectCall(Some("*")),
                            FilterCall("in", "user_id", Column(data[1], "friend_id")) >>,
                         "user_books")
             [] s.pc = "user_books" ->
                  IF data = Undefined \/ Len(data[1]) = 0 THEN Returns(s, <<>>)
                  ELSE CatalogAwaiting(
                         [s EXCEPT !.locals =
                            [ friendships |-> s.locals.friendships,
                              friendIds |-> s.locals.friendIds,
                              userBooks |-> data[1] ]],
                         "books",
                         << SelectCall(Some("*")),
                            FilterCall("in", "id", Distinct(Column(data[1], "book_id"))) >>,
                         "books")
             [] s.pc = "books" ->
                  IF data = Undefined \/ Len(data[1]) = 0 THEN Returns(s, <<>>)
                  ELSE CatalogAwaiting(
                         [s EXCEPT !.locals =
                            [ friendships |-> s.locals.friendships,
                              friendIds |-> s.locals.friendIds,
                              userBooks |-> s.locals.userBooks,
                              filteredBooks |-> FilteredBooks(data[1], s.args[2]) ]],
                         "users",
                         << SelectCall(Some("*")),
                            FilterCall("in", "id", s.locals.friendIds) >>,
                         "users")
             [] s.pc = "users" ->
                  Returns(s, FriendBooks(s.locals.filteredBooks, s.locals.userBooks,
                                         RowsOrNone(data)))

\* getFriendBookDetails from the settling of an await on
DetailsStep(s, o) ==
  IF o.kind = "throw" \/ o.value[1].type = "null" THEN ReturnsEmpty(s)
  ELSE LET data == Data(o.value[1])
       IN  CASE s.pc = "friendships" ->
                  IF data = Undefined \/ Len(data[1]) = 0 THEN Returns(s, <<>>)
                  ELSE CatalogAwaiting(
                         [s EXCEPT !.locals =
                            [ friendships |-> data[1],
                              friendIds |-> Column(data[1], "friend_id") ]],
                         "user_books",
                         << SelectCall(Some("*")),
                            FilterCall("eq", "book_id", s.args[2]),
                            FilterCall("in", "user_id", Column(data[1], "friend_id")) >>,
                         "user_books")
             [] s.pc = "user_books" ->
                  IF data = Undefined \/ Len(data[1]) = 0 THEN Returns(s, <<>>)
                  ELSE CatalogAwaiting(
                         [s EXCEPT !.locals =
                            [ friendships |-> s.locals.friendships,
                              friendIds |-> s.locals.friendIds,
                              userBooks |-> data[1] ]],
                         "books",
                         << SelectCall(Some("*")),
                            FilterCall("eq", "id", s.args[2]),
                            PlainCall("single") >>,
                         "books")
             [] s.pc = "books" ->
                  IF data = Undefined THEN Returns(s, <<>>)
                  ELSE CatalogAwaiting(
                         [s EXCEPT !.locals =
                            [ friendships |-> s.locals.friendships,
                              friendIds |-> s.locals.friendIds,
                              userBooks |-> s.locals.userBooks,
                              book |-> data[1] ]],
                         "users",
                         << SelectCall(Some("*")),
                            FilterCall("in", "id", Column(s.locals.userBooks, "user_id")) >>,
                         "users")
             [] s.pc = "users" ->
                  Returns(s, BookDetails(s.locals.book, s.locals.userBooks,
                                         RowsOrNone(data)))

----------------------------------------------------------------------------
(* friendService.getFriends, getIncomingRequests, getOutgoingRequests and   *)
(* the loaders of the Dashboard: the data of a call                         *)

\* getFriends, up to the await of the friendships
GetFriendsCall(userId) ==
  CatalogAwaiting([IdleService EXCEPT !.op = "getFriends", !.userId = userId],
                  "friendships",
                  << SelectCall(Some("*")),
                     FilterCall("eq", "user_id", userId),
                     FilterCall("eq", "status", "accepted") >>,
                  "friendships")

\* getFriends from the settling of an await on
GetFriendsStep(s, o) ==
  IF o.kind = "throw" \/ o.value[1].type = "null" THEN ReturnsEmpty(s)
  ELSE CASE s.pc = "friendships" ->
              IF Data(o.value[1]) = Undefined \/ Len(Data(o.value[1])[1]) = 0
                THEN Returns(s, <<>>)
              ELSE CatalogAwaiting(
                     [s EXCEPT !.locals = [friendships |-> Data(o.value[1])[1]]],
                     "users",
                     << SelectCall(Some("*")),
                        FilterCall("in", "id",
                                   Column(Data(o.value[1])[1], "friend_id")) >>,
                     "users")
         [] s.pc = "users" -> Returns(s, RowsOrNone(Data(o.value[1])))

\* getIncomingRequests (the user is the recipient_id) and
\* getOutgoingRequests (the user is the requester_id), up to the await of
\* the requests
RequestsCall(op, userId, column) ==
  CatalogAwaiting([IdleService EXCEPT !.op = op, !.userId = userId],
                  "friend_requests",
                  << SelectCall(Some("*")),
                     FilterCall("eq", column, userId),
                     FilterCall("eq", "status", "pending"),
                     OrderCall("created_at", Some(FALSE)) >>,
                  "requests")

\* requests.map(req => ({ ...req, requester | recipient: map.get(...) }))
WithUser(requests, users, column) ==
  [ i \in DOMAIN requests |->
      [request |-> requests[i], user |-> OwnerOf(users, requests[i][column])] ]

\* the two functions from the settling of an await on; other is the column
\* of the other user of a request
RequestsStep(s, o, other) ==
  IF o.kind = "throw" \/ o.value[1].type = "null" THEN ReturnsEmpty(s)
  ELSE CASE s.pc = "requests" ->
              IF Data(o.value[1]) = Undefined \/ Len(Data(o.value[1])[1]) = 0
                THEN Returns(s, <<>>)
              ELSE CatalogAwaiting(
                     [s EXCEPT !.locals = [requests |-> Data(o.value[1])[1]]],
                     "users",
                     << SelectCall(Some("*")),
                        FilterCall("in", "id", Column(Data(o.value[1])[1], other)) >>,
                     "users")
         [] s.pc = "users" ->
              Returns(s, WithUser(s.locals.requests, RowsOrNone(Data(o.value[1])),
                                  other))

\* ensureUserExists, up to the await of the lookup
EnsureCall(userId, email) ==
  Awaiting([IdleService EXCEPT !.op = "ensureUserExists", !.userId = userId,
                               !.args = <<userId, email>>],
           "users",
           << SelectCall(Some("*")),
              FilterCall("eq", "id", userId),
              PlainCall("single") >>,
           "select")

\* the catch block of loadDashboardData: console.warn and the default values
LoadFailed(p) ==
  [p EXCEPT !.load = [p.load EXCEPT !.pc = "resolved",
                                    !.console = Append(p.load.console, "warn")],
            !.totalBooks = 0, !.friendsCount = 0, !.activeLendings = 0]

\* an await inside the try block of loadDashboardData
LoadAwaiting(p, table, chain, pc) ==
  IF ConfigurationError(env) # Undefined THEN LoadFailed(p)
  ELSE [p EXCEPT !.load = Awaiting(p.load, table, chain, pc)]

\* the friendships that name the user on either side
UserFriendships(rows, user) ==
  SelectSeq(rows, LAMBDA f : f.user_id = user \/ f.friend_id = user)

\* loadDashboardData, up to the await of the user's books
LoadCall(p, user) ==
  LoadAwaiting([p EXCEPT !.load = [IdleService EXCEPT !.op = "loadDashboardData",
                                                      !.userId = user]],
               "user_books",
               << SelectCall(Some("*")), FilterCall("eq", "user_id", user) >>,
               "user_books")

\* the await of the friends count
FriendsCountAwaited(p) ==
  LoadAwaiting(p, "friendships",
               << SelectCall(Some("*")), FilterCall("eq", "status", "accepted") >>,
               "friendships")

\* loadDashboardData from the settling of an await on
LoadStep(p, o) ==
  IF o.kind = "throw" \/ o.value[1].type = "null" THEN LoadFailed(p)
  ELSE LET data  == Data(o.value[1])
           error == o.value[1].error
       IN  CASE p.load.pc = "user_books" ->
                  IF Truthy(error) THEN LoadFailed(p)
                  ELSE IF data # Undefined /\ Len(data[1]) > 0
                    THEN LoadAwaiting(
                           [p EXCEPT !.load.locals = [userBooks |-> data[1]]],
                           "books",
                           << SelectCall(Some("*")),
                              FilterCall("in", "id", Column(data[1], "book_id")) >>,
                           "books")
                  ELSE FriendsCountAwaited([p EXCEPT !.totalBooks = 0])
             [] p.load.pc = "books" ->
                  IF Truthy(error) THEN LoadFailed(p)
                  ELSE FriendsCountAwaited(
                         [p EXCEPT !.totalBooks = Len(p.load.locals.userBooks)])
             [] p.load.pc = "friendships" ->
                  LoadAwaiting(
                    [p EXCEPT !.friendsCount =
                       IF ~Truthy(error) /\ data # Undefined
                         THEN Len(UserFriendships(data[1], p.load.userId))
                       ELSE p.friendsCount],
                    "lending_requests",
                    << SelectCall(Some("*")),
                       FilterCall("eq", "owner_id", p.load.userId) >>,
                    "ownerLendings")
             [] p.load.pc = "ownerLendings" ->
                  LoadAwaiting(
                    [p EXCEPT !.load.locals = [ ownerError |-> error,
                                                ownerLendings |-> RowsOrNone(data) ]],
                    "lending_requests",
                    << SelectCall(Some("*")),
                       FilterCall("eq", "borrower_id", p.load.userId) >>,
                    "borrowerLendings")
             [] p.load.pc = "borrowerLendings" ->
                  [p EXCEPT !.load.pc = "resolved",
                            !.activeLendings =
                               IF ~Truthy(p.load.locals.ownerError) /\ ~Truthy(error)
                                 THEN Len(SelectSeq(
                                        p.load.locals.ownerLendings \o RowsOrNone(data),
                                        LAMBDA l : l.status \in {"pending", "approved"}))
                               ELSE p.activeLendings]

\* the catch block of loadFriendData: console.warn and the default values
FriendDataFailed(p) ==
  [p EXCEPT !.friendData = "resolved", !.warned = TRUE,
            !.incomingRequests = <<>>, !.outgoingRequests = <<>>, !.friends = <<>>]

\* the continuation of Promise.all once its three promises are fulfilled
FriendDataLoaded(p) ==
  IF /\ p.incoming.pc = "resolved"
     /\ p.outgoing.pc = "resolved"
     /\ p.getFriends.pc = "resolved"
    THEN [p EXCEPT !.friendData = "resolved",
                   !.incomingRequests = p.incoming.result[1],
                   !.outgoingRequests = p.outgoing.result[1],
                   !.friends = p.getFriends.result[1]]
  ELSE p

\* loadFriendData once ensureUserExists has settled as p.ensure says: the
\* three functions are called, each up to its first await
EnsureSettled(p) ==
  IF p.ensure.pc = "rejected" THEN FriendDataFailed(p)
  ELSE IF p.ensure.pc = "resolved"
    THEN FriendDataLoaded(
           [p EXCEPT !.friendData = "all",
                     !.incoming = RequestsCall("getIncomingRequests",
                                               p.ensure.userId, "recipient_id"),
                     !.outgoing = RequestsCall("getOutgoingRequests",
                                               p.ensure.userId, "requester_id"),
                     !.getFriends = GetFriendsCall(p.ensure.userId)])
  ELSE p

\* loadFriendData, up to the await of ensureUserExists
FriendDataCall(p, user) ==
  EnsureSettled([p EXCEPT !.friendData = "ensure",
                          !.ensure = EnsureCall(user, UserRow(user).email)])

----------------------------------------------------------------------------
(* State *)

ExecIds == 1..MaxExec

IdleExec ==
  [ pc |-> "idle", b |-> "", via |-> "", fetches |-> 0, request |-> Undefined,
    response |-> Undefined, settled |-> 0, value |-> Undefined,
    error |-> Undefined, console |-> <<>>, dispatched |-> <<>>,
    redirected |-> FALSE ]

Envs == [projectId : ProjectIds, backendUrl : ServerUrls]

Configured == [projectId |-> "p1", backendUrl |-> "https://anyx.dev"]

\* what the storage may hold when the page loads: nothing, a session the
\* authentication library stored, or a record that is no session
StoredItems == {Undefined, Some(SessionText("t1")), Some(HtmlText)}

\* no table holds a row
EmptyDb == [table \in TableNames |-> {}]

\* the Dashboard before it has loaded anything; a bookDetails of null is
\* written as undefined
IdlePage ==
  [ toast |-> Undefined, friends |-> <<>>, friendsCount |-> 0,
    bookDetails |-> Undefined, isbn |-> "", totalBooks |-> 0,
    activeLendings |-> 0, incomingRequests |-> <<>>, outgoingRequests |-> <<>>,
    warned |-> FALSE, load |-> IdleService, friendData |-> "idle",
    ensure |-> IdleService, incoming |-> IdleService, outgoing |-> IdleService,
    getFriends |-> IdleService ]

InitBuilders(tables) ==
  /\ builder \in [BuilderIds -> {from(t) : t \in tables}]
  /\ log = [b \in BuilderIds |-> <<>>]
  /\ execs = [e \in ExecIds |-> IdleExec]
  /\ nextExec = 1
  /\ outcome = IdleExec
  /\ location = "/dashboard"
  /\ provider = Unmounted
  /\ svc = IdleService

Init ==
  /\ env \in Envs
  /\ storage \in StoredItems
  /\ InitBuilders({"users"})
  /\ db = EmptyDb
  /\ page = IdlePage

InitAuth ==
  /\ env = Configured
  /\ storage \in StoredItems \cup {Some(SessionOf("v", "t1"))}
  /\ InitBuilders({"users"})
  /\ db = EmptyDb
  /\ page = IdlePage

InitFriends ==
  /\ env \in Envs
  /\ storage \in StoredItems
  /\ InitBuilders({"users"})
  /\ db = EmptyDb
  /\ page = IdlePage

\* the friendships the catalog is read over: those of u in either status,
\* and two among the others
CatalogFriendships ==
  { S \in TableStates("friendships") :
      \A row \in S :
        \/ row.user_id = "u"
        \/ (row.user_id = "v" /\ row.friend_id = "u" /\ row.status = "accepted")
        \/ (row.user_id = "w" /\ row.friend_id = "v" /\ row.status = "accepted") }

\* at most two copies of books are owned
CatalogUserBooks == {S \in SUBSET UserBooks : Cardinality(S) <= 2}

CatalogDbs ==
  { [EmptyDb EXCEPT !.users = U, !.books = BookRows, !.friendships = F,
                    !.user_books = B] :
      U \in {UserRows, UserRows \ {UserRow("w")}},
      F \in CatalogFriendships, B \in CatalogUserBooks }

InitCatalog ==
  /\ env = Configured
  /\ storage = Undefined
  /\ InitBuilders({"users"})
  /\ db \in CatalogDbs
  /\ page = IdlePage

\* the users table holds any of the profiles
InitUsers ==
  /\ env \in Envs
  /\ storage \in StoredItems
  /\ InitBuilders({"users"})
  /\ db \in {[EmptyDb EXCEPT !.users = U] : U \in SUBSET UserRows}
  /\ page = IdlePage

\* the Dashboard with the details of a book fetched, or none
InitBooks ==
  /\ env = Configured
  /\ storage \in StoredItems
  /\ InitBuilders({"users"})
  /\ db = [EmptyDb EXCEPT !.users = UserRows, !.books = {BookRow("b1")}]
  /\ page \in {[IdlePage EXCEPT !.bookDetails = d] :
                 d \in {Undefined} \cup {Some(book) : book \in FetchedBooks}}

\* every user has a profile; one friend request at most, in any status, and
\* u and v friends or not
InitRequests ==
  /\ env = Configured
  /\ storage \in StoredItems
  /\ InitBuilders({"users"})
  /\ db \in { [EmptyDb EXCEPT !.users = UserRows, !.friend_requests = R,
                              !.friendships = F] :
                R \in TableStates("friend_requests"),
                F \in { {},
                        {[user_id |-> "u", friend_id |-> "v", status |-> "pending"]},
                        {[user_id |-> "u", friend_id |-> "v", status |-> "accepted"],
                         [user_id |-> "v", friend_id |-> "u", status |-> "accepted"]} } }
  /\ page = IdlePage

\* the friendship of a and b as acceptFriendRequest stores it
BothRows(a, b) ==
  { [user_id |-> a, friend_id |-> b, status |-> "accepted"],
    [user_id |-> b, friend_id |-> a, status |-> "accepted"] }

\* the tables as the friend functions leave them when none of their
\* requests fails: friendships stored in both directions, among them those
\* of every accepted request
SettledDbs ==
  { [EmptyDb EXCEPT !.users = UserRows, !.friend_requests = R, !.friendships = F] :
      R \in TableStates("friend_requests"),
      F \in { UNION {BothRows(pair[1], pair[2]) : pair \in P} :
                P \in SUBSET {<<"u", "v">>, <<"v", "w">>} } }

InitDecide ==
  /\ env = Configured
  /\ storage = Undefined
  /\ InitBuilders({"users"})
  /\ db \in { d \in SettledDbs :
                \A r \in d.friend_requests :
                  r.status = "accepted"
                    => BothRows(r.requester_id, r.recipient_id) \subseteq d.friendships }
  /\ page = IdlePage

\* a user signed in, profiles for all, friendships stored in both
\* directions, one friend request at most and a book or none owned by u
InitDashboard ==
  /\ env = Configured
  /\ storage \in {Some(SessionOf(u, "t1")) : u \in {"u", "v"}}
  /\ InitBuilders({"users"})
  /\ db \in { [d EXCEPT !.books = BookRows, !.user_books = B] :
                d \in SettledDbs,
                B \in {{}, {[user_id |-> "u", book_id |-> "b1"]}} }
  /\ page = IdlePage

\* what the storage key may hold besides a session: JSON that is no
\* session record, and the empty string
StoredRecords == StoredItems \cup {Some("null"), Some("{}"), Some("")}

InitCalls ==
  /\ env = Configured
  /\ storage \in StoredRecords
  /\ InitBuilders({"users"})
  /\ db = EmptyDb
  /\ page = IdlePage

\* two builders made by two calls of supabase.from
PairIds == {"q1", "q2"}

InitPair ==
  /\ env = Configured
  /\ storage = Undefined
  /\ builder \in [PairIds -> {from(t) : t \in Tables}]
  /\ log = [b \in PairIds |-> <<>>]
  /\ execs = [e \in ExecIds |-> IdleExec]
  /\ nextExec = 1
  /\ outcome = IdleExec
  /\ location = "/dashboard"
  /\ provider = Unmounted
  /\ svc = IdleService
  /\ db = EmptyDb
  /\ page = IdlePage

InitBuild ==
  /\ env = Configured
  /\ storage = Undefined
  /\ InitBuilders(Tables)
  /\ db = EmptyDb
  /\ page = IdlePage

----------------------------------------------------------------------------
(* Configuration calls *)

\* no execute() was called on the builder yet: a builder is configured by
\* chained calls and then executed
Unused(b) == \A e \in ExecIds : execs[e].b # b

\* room for one more configuration call on b
CanConfigure(b) == Unused(b) /\ Len(log[b]) < MaxCalls

\* a call that also sends the query as configured so far
ConfigureEagerly(b, c) ==
  /\ builder' = [builder EXCEPT ![b] = Apply(builder[b], c)]
  /\ log' = [log EXCEPT ![b] = Append(@, c)]
  /\ execs' = [execs EXCEPT ![1] =
                 [IdleExec EXCEPT !.pc = "fetching", !.b = b, !.via = "execute",
                                  !.fetches = 1,
                                  !.request =
                                     Some(Request(Apply(builder[b], c), env, storage))]]
  /\ UNCHANGED <<env, storage, location, nextExec, outcome, provider, svc,
                 db, page>>

\* a call that lands on fields all builders share
ConfigureShared(b, c) ==
  /\ builder' = [x \in DOMAIN builder |-> Apply(builder[x], c)]
  /\ log' = [log EXCEPT ![b] = Append(@, c)]
  /\ UNCHANGED <<env, storage, location, execs, nextExec, outcome, provider, svc,
                 db, page>>

\* the call c is made on b
Configure(b, c) ==
  /\ builder' = [builder EXCEPT ![b] = Apply(builder[b], c)]
  /\ log' = [log EXCEPT ![b] = Append(@, c)]
  /\ UNCHANGED <<env, storage, location, execs, nextExec, outcome, provider, svc,
                 db, page>>

Select(b) ==
  \E columns \in SelectArgs :
    /\ CanConfigure(b)
    /\ Configure(b, SelectCall(columns))

Eq(b) ==
  \E c \in Columns, v \in Scalars :
    /\ CanConfigure(b)
    /\ Configure(b, FilterCall("eq", c, v))

Neq(b) ==
  \E c \in Columns, v \in Scalars :
    /\ CanConfigure(b)
    /\ Configure(b, FilterCall("neq", c, v))

Gt(b) ==
  \E c \in Columns, v \in Scalars :
    /\ CanConfigure(b)
    /\ Configure(b, FilterCall("gt", c, v))

Gte(b) ==
  \E c \in Columns, v \in Scalars :
    /\ CanConfigure(b)
    /\ Configure(b, FilterCall("gte", c, v))

Lt(b) ==
  \E c \in Columns, v \in Scalars :
    /\ CanConfigure(b)
    /\ Configure(b, FilterCall("lt", c, v))

Lte(b) ==
  \E c \in Columns, v \in Scalars :
    /\ CanConfigure(b)
    /\ Configure(b, FilterCall("lte", c, v))

Like(b) ==
  \E c \in Columns, v \in Patterns :
    /\ CanConfigure(b)
    /\ Configure(b, FilterCall("like", c, v))

Ilike(b) ==
  \E c \in Columns, v \in Patterns :
    /\ CanConfigure(b)
    /\ Configure(b, FilterCall("ilike", c, v))

In(b) ==
  \E c \in Columns, v \in Lists :
    /\ CanConfigure(b)
    /\ Configure(b, FilterCall("in", c, v))

Is(b) ==
  \E c \in Columns :
    /\ CanConfigure(b)
    /\ Configure(b, FilterCall("is", c, "null"))

Order(b) ==
  \E c \in Columns, ascending \in AscendingArgs :
    /\ CanConfigure(b)
    /\ Configure(b, OrderCall(c, ascending))

Limit(b) ==
  \E n \in Counts :
    /\ CanConfigure(b)
    /\ Configure(b, CountCall("limit", n))

Offset(b) ==
  \E n \in Counts :
    /\ CanConfigure(b)
    /\ Configure(b, CountCall("offset", n))

Single(b) ==
  /\ CanConfigure(b)
  /\ Configure(b, PlainCall("single"))

Insert(b) ==
  \E values \in InsertArgs :
    /\ CanConfigure(b)
    /\ Configure(b, InsertCall(values))

Update(b) ==
  \E values \in FieldMaps :
    /\ CanConfigure(b)
    /\ Configure(b, UpdateCall(values))

Delete(b) ==
  /\ CanConfigure(b)
  /\ Configure(b, PlainCall("delete"))

\* chained expressions of the services, each evaluated in one step
SampleChains ==
  { <<SelectCall(Some("*")), FilterCall("eq", "id", "1"), PlainCall("single")>>,
    <<InsertCall(ObjectOf("{a:1}")), SelectCall(Undefined), PlainCall("single")>>,
    <<UpdateCall("{b:2}"), FilterCall("eq", "id", "1")>> }

NewQuery(b) ==
  \E chain \in SampleChains :
    /\ Unused(b)
    /\ log[b] = <<>>
    /\ builder' = [builder EXCEPT ![b] = ApplyChain(builder[b], chain)]
    /\ log' = [log EXCEPT ![b] = chain]
    /\ UNCHANGED <<env, storage, location, execs, nextExec, outcome, provider, svc,
                   db, page>>

----------------------------------------------------------------------------
(* execute(), and the thenable entry point *)

\* a call that joins the request its builder already has in flight
StartedShared(b, via) ==
  IF \E e \in DOMAIN execs : execs[e].b = b /\ execs[e].pc = "fetching"
    THEN [IdleExec EXCEPT !.pc = "joined", !.b = b, !.via = via]
  ELSE [IdleExec EXCEPT !.pc = "fetching", !.b = b, !.via = via,
                        !.fetches = 1,
                        !.request = Some(Request(builder[b], env, storage))]

\* the call of execute() up to its first await: the configuration is
\* validated, the request built and the fetch started
Started(b, via) ==
  LET failure == ConfigurationError(env)
      auth == AuthHeader(storage)
  IN  IF failure # Undefined
        THEN [IdleExec EXCEPT !.pc = "rejected", !.b = b, !.via = via,
                              !.settled = 1, !.error = failure,
                              !.console = <<"error">>]
      ELSE [IdleExec EXCEPT !.pc = "fetching", !.b = b, !.via = via,
                            !.fetches = 1,
                            !.request = Some(Request(builder[b], env, storage)),
                            !.console = IF auth.warned THEN <<"warn">> ELSE <<>>]

\* what is kept of an execution once its caller has its outcome
Done(x) ==
  [IdleExec EXCEPT !.pc = "done", !.b = x.b, !.via = x.via,
                   !.fetches = x.fetches, !.settled = x.settled]

InFlight(x) == x.pc = "fetching"

Start(b, via) ==
  LET x == Started(b, via)
  IN  /\ execs' = [execs EXCEPT ![nextExec] = IF InFlight(x) THEN x ELSE Done(x)]
      /\ outcome' = IF InFlight(x) THEN outcome ELSE x
      /\ nextExec' = nextExec + 1
      /\ UNCHANGED <<env, storage, location, builder, log, provider, svc,
                     db, page>>

Execute(b) ==
  /\ nextExec <= MaxExec
  /\ Start(b, "execute")

\* then(onfulfilled, onrejected): this.execute().then(onfulfilled, onrejected)
Then(b) ==
  /\ nextExec <= MaxExec
  /\ Start(b, "then")

\* catch(onrejected): this.execute().catch(onrejected)
Catch(b) ==
  /\ nextExec <= MaxExec
  /\ Start(b, "catch")

\* finally(onfinally): this.execute().finally(onfinally)
Finally(b) ==
  /\ nextExec <= MaxExec
  /\ Start(b, "finally")

\* an execution that fetches a second time when the first attempt failed
SettledWithRetry(x, resp) ==
  LET o == AfterFetch(resp)
  IN  [x EXCEPT !.pc = IF o.kind = "return" THEN "resolved" ELSE "rejected",
                !.response = Some(resp),
                !.fetches = IF o.kind = "throw" THEN @ + 1 ELSE @,
                !.settled = @ + 1,
                !.value = o.value,
                !.error = o.error,
                !.console = @ \o o.console,
                !.dispatched = IF o.authFailure THEN Append(@, "null") ELSE @,
                !.redirected = o.authFailure]

\* the execution after the fetch settled with resp
Settled(x, resp) ==
  LET o == AfterFetch(resp)
  IN  [x EXCEPT !.pc = IF o.kind = "return" THEN "resolved" ELSE "rejected",
                !.response = Some(resp),
                !.settled = @ + 1,
                !.value = o.value,
                !.error = o.error,
                !.console = @ \o o.console,
                !.dispatched = IF o.authFailure THEN Append(@, "null") ELSE @,
                !.redirected = o.authFailure]

Fetching(e) == InFlight(execs[e])

Settle(e, resp) ==
  /\ outcome' = Settled(execs[e], resp)
  /\ execs' = [execs EXCEPT ![e] = Done(Settled(execs[e], resp))]
  /\ storage' = IF AfterFetch(resp).authFailure THEN Undefined ELSE storage
  /\ location' = IF AfterFetch(resp).authFailure THEN "/auth" ELSE location
  /\ provider' = IF AfterFetch(resp).authFailure
                   THEN handleAuthChange(provider, Null) ELSE provider
  /\ UNCHANGED <<env, builder, log, nextExec, svc,
                 db, page>>

\* exceptions with which a fetch rejects: the message depends on the browser
FetchExceptions ==
  { TypeError(FailedToFetch), TypeError("Load failed") }

FetchRejects(e) ==
  \E x \in FetchExceptions :
    /\ Fetching(e)
    /\ Settle(e, Rejection(x))

RespondOk(e) ==
  \E text \in {RowsTextSpaced, HtmlText} :
    /\ Fetching(e)
    /\ Settle(e, Response(200, text))

RespondAuthFailure(e) ==
  \E status \in {401, 403} :
    /\ Fetching(e)
    /\ Settle(e, Response(status, ""))

\* answers of the server to a query it refuses or fails to serve
ErrorResponses ==
  { Response(304, ""), Response(400, "{}"),
    Response(404, ErrorText), Response(404, "null"),
    Response(500, MessageText), Response(500, HtmlText) }

RespondError(e) ==
  \E resp \in ErrorResponses :
    /\ Fetching(e)
    /\ Settle(e, resp)

----------------------------------------------------------------------------
(* The environment *)

\* setSession(session) of the authentication library, called with the
\* session of a sign-in: the record is stored and the event dispatched
SetSession(t) ==
  /\ storage' = Some(SessionText(t))
  /\ provider' = handleAuthChange(provider, SessionText(t))
  /\ UNCHANGED <<env, location, builder, log, execs, nextExec, outcome, svc,
                 db, page>>

\* the configuration the next execute() reads
SetEnv(e) ==
  /\ env' = e
  /\ UNCHANGED <<storage, location, builder, log, execs, nextExec, outcome, provider, svc,
                 db, page>>

----------------------------------------------------------------------------
(* The AuthProvider component *)

\* what the key may hold when the component reads it
SessionRecords == StoredItems \cup {Some(SessionOf("v", "t1"))}

\* the effect of AuthProvider: the state is taken from getSession(), then
\* the listeners are added
Mount ==
  /\ ~provider.mounted
  /\ provider' = [ mounted |-> TRUE,
                   session |-> getSession(storage).session,
                   user    |-> SessionUser(getSession(storage).session),
                   loading |-> FALSE,
                   heard   |-> Undefined,
                   tick    |-> FALSE ]
  /\ storage' = IF getSession(storage).cleared THEN Undefined ELSE storage
  /\ UNCHANGED <<env, location, builder, log, execs, nextExec, outcome, svc,
                 db, page>>

\* the cleanup of the effect: the listeners are removed, the state is gone
Unmount ==
  /\ provider.mounted
  /\ provider' = Unmounted
  /\ UNCHANGED <<env, storage, location, builder, log, execs, nextExec, outcome, svc,
                 db, page>>

\* another tab writes the key: the 'storage' event reaches handleStorageChange,
\* which reads getSession() (and that clears a record it cannot read)
StorageChanged(item) ==
  /\ item # storage
  /\ storage' = IF provider.mounted /\ getSession(item).cleared
                  THEN Undefined ELSE item
  /\ provider' =
       IF ~provider.mounted THEN provider
       ELSE [ (IF getSession(item).cleared
                 THEN handleAuthChange(provider, Null) ELSE provider)
              EXCEPT !.session = getSession(item).session,
                     !.user = SessionUser(getSession(item).session) ]
  /\ UNCHANGED <<env, location, builder, log, execs, nextExec, outcome, svc,
                 db, page>>

\* signOut of the context: clearSession(), the redirect, then the state
SignOut ==
  /\ provider.mounted
  /\ storage' = Undefined
  /\ location' = "/auth"
  /\ provider' = [handleAuthChange(provider, Null) EXCEPT !.session = Null,
                                                          !.user = Null]
  /\ UNCHANGED <<env, builder, log, execs, nextExec, outcome, svc,
                 db, page>>

----------------------------------------------------------------------------
(* friendService.acceptFriendRequest: one action per stretch between awaits *)

\* what the transport may answer a query that carries no row back
QueryAnswers ==
  { Response(200, NoDataText), Response(401, ""), Response(500, MessageText),
    Rejection(TypeError(FailedToFetch)) }

\* what it may answer the select of one friend request
RequestAnswers ==
  QueryAnswers \cup {Response(200, Null)}
    \cup {Response(200, RequestText(row)) : row \in FriendRequests}

\* what the SDK does to the page when the awaited query settles with resp
SdkSettles(resp) ==
  /\ storage' = IF AfterFetch(resp).authFailure THEN Undefined ELSE storage
  /\ location' = IF AfterFetch(resp).authFailure THEN "/auth" ELSE location
  /\ provider' = IF AfterFetch(resp).authFailure
                   THEN handleAuthChange(provider, Null) ELSE provider
  /\ db' = Executed(db, svc.sent[Len(svc.sent)].body, resp)
  /\ UNCHANGED <<env, builder, log, execs, nextExec, outcome, page>>

\* an accept that looks the request up by its id alone
AcceptAnyRecipient(requestId, userId) ==
  /\ svc.pc \in {"idle", "resolved", "rejected"}
  /\ svc' = Awaiting([IdleService EXCEPT !.op = "acceptFriendRequest",
                                         !.requestId = requestId,
                                         !.userId = userId],
                     "friend_requests",
                     << SelectCall(Some("*")),
                        FilterCall("eq", "id", requestId),
                        PlainCall("single") >>,
                     "select")
  /\ UNCHANGED <<env, storage, location, builder, log, execs, nextExec, outcome,
                 provider, db, page>>

\* the call, up to the await of the select
AcceptFriendRequest(requestId, userId) ==
  /\ svc.pc \in {"idle", "resolved", "rejected"}
  /\ svc' = Awaiting([IdleService EXCEPT !.op = "acceptFriendRequest",
                                         !.requestId = requestId,
                                         !.userId = userId],
                     "friend_requests",
                     << SelectCall(Some("*")),
                        FilterCall("eq", "id", requestId),
                        FilterCall("eq", "recipient_id", userId),
                        PlainCall("single") >>,
                     "select")
  /\ UNCHANGED <<env, storage, location, builder, log, execs, nextExec, outcome,
                 provider, db, page>>

\* the select settles: the request is taken from data, and the update is
\* awaited
AcceptSelected(resp) ==
  \E now \in Timestamps :
    /\ svc.op = "acceptFriendRequest"
    /\ svc.pc = "select"
    /\ svc' =
         IF AfterFetch(resp).kind = "throw"
           THEN Failed(svc, AfterFetch(resp).error[1])
         ELSE IF AfterFetch(resp).value[1].type = "null"
           THEN Failed(svc, TypeError("Cannot destructure property 'data' of null"))
         ELSE IF Data(AfterFetch(resp).value[1]) = Undefined
           THEN Failed(svc, Error("Friend request not found"))
         ELSE Awaiting([svc EXCEPT !.request = Data(AfterFetch(resp).value[1])],
                       "friend_requests",
                       << UpdateCall([status |-> "accepted", updated_at |-> now]),
                          FilterCall("eq", "id", svc.requestId) >>,
                       "update")
    /\ SdkSettles(resp)

\* the update settles: the insert of the two friendships is awaited
AcceptUpdated(resp) ==
  /\ svc.op = "acceptFriendRequest"
  /\ svc.pc = "update"
  /\ svc' =
       IF AfterFetch(resp).kind = "throw"
         THEN Failed(svc, AfterFetch(resp).error[1])
       ELSE Awaiting(svc, "friendships",
                     <<InsertCall(ArrayOf(FriendshipRows(svc.request[1])))>>,
                     "insert")
  /\ SdkSettles(resp)

\* the insert settles: the function returns
AcceptInserted(resp) ==
  /\ svc.op = "acceptFriendRequest"
  /\ svc.pc = "insert"
  /\ svc' =
       IF AfterFetch(resp).kind = "throw"
         THEN Failed(svc, AfterFetch(resp).error[1])
       ELSE [svc EXCEPT !.pc = "resolved"]
  /\ SdkSettles(resp)

----------------------------------------------------------------------------
(* friendsCatalogService called by the page, its queries answered by the   *)
(* backend                                                                  *)

\* a query that fails on the server
Faults == {Response(500, MessageText)}

\* what the awaited query is answered with: the backend's answer, or a fault
BackendAnswers ==
  IF svc.sent = <<>> THEN {}
  ELSE {Served(db, svc.sent[Len(svc.sent)].body).response} \cup Faults

\* a search that reads the friendships of the user in any status
SearchAnyFriendship(userId, searchQuery) ==
  /\ svc.pc \in {"idle", "resolved", "rejected"}
  /\ svc' = CatalogAwaiting([IdleService EXCEPT !.op = "searchFriendsCatalog",
                                                !.userId = userId,
                                                !.args = <<userId, searchQuery>>],
                            "friendships",
                            << SelectCall(Some("*")),
                               FilterCall("eq", "user_id", userId) >>,
                            "friendships")
  /\ UNCHANGED <<env, storage, location, builder, log, execs, nextExec, outcome,
                 provider, db, page>>

\* the call, up to the await of the friendships
SearchFriendsCatalog(userId, searchQuery) ==
  /\ svc.pc \in {"idle", "resolved", "rejected"}
  /\ svc' = CatalogAwaiting([IdleService EXCEPT !.op = "searchFriendsCatalog",
                                                !.userId = userId,
                                                !.args = <<userId, searchQuery>>],
                            "friendships",
                            << SelectCall(Some("*")),
                               FilterCall("eq", "user_id", userId),
                               FilterCall("eq", "status", "accepted") >>,
                            "friendships")
  /\ UNCHANGED <<env, storage, location, builder, log, execs, nextExec, outcome,
                 provider, db, page>>

\* the awaited query settles: the function runs to its next await or returns
SearchAnswered(resp) ==
  /\ svc.op = "searchFriendsCatalog"
  /\ svc.pc \in {"friendships", "user_books", "books", "users"}
  /\ svc' = SearchStep(svc, AfterFetch(resp))
  /\ SdkSettles(resp)

GetFriendBookDetails(userId, bookId) ==
  /\ svc.pc \in {"idle", "resolved", "rejected"}
  /\ svc' = CatalogAwaiting([IdleService EXCEPT !.op = "getFriendBookDetails",
                                                !.userId = userId,
                                                !.args = <<userId, bookId>>],
                            "friendships",
                            << SelectCall(Some("*")),
                               FilterCall("eq", "user_id", userId),
                               FilterCall("eq", "status", "accepted") >>,
                            "friendships")
  /\ UNCHANGED <<env, storage, location, builder, log, execs, nextExec, outcome,
                 provider, db, page>>

DetailsAnswered(resp) ==
  /\ svc.op = "getFriendBookDetails"
  /\ svc.pc \in {"friendships", "user_books", "books", "users"}
  /\ svc' = DetailsStep(svc, AfterFetch(resp))
  /\ SdkSettles(resp)

----------------------------------------------------------------------------
(* friendService.ensureUserExists *)

\* the call, up to the await of the lookup
EnsureUserExists(userId, email) ==
  /\ svc.pc \in {"idle", "resolved", "rejected"}
  /\ svc' = Awaiting([IdleService EXCEPT !.op = "ensureUserExists",
                                         !.userId = userId,
                                         !.args = <<userId, email>>],
                     "users",
                     << SelectCall(Some("*")),
                        FilterCall("eq", "id", userId),
                        PlainCall("single") >>,
                     "select")
  /\ UNCHANGED <<env, storage, location, builder, log, execs, nextExec, outcome,
                 provider, db, page>>

EnsureAnswered(resp) ==
  /\ svc.op = "ensureUserExists"
  /\ svc.pc \in {"select", "insert"}
  /\ svc' = EnsureStep(svc, AfterFetch(resp))
  /\ SdkSettles(resp)

----------------------------------------------------------------------------
(* friendService.declineFriendRequest and removeFriend *)

\* the call, up to the await of the select
DeclineFriendRequest(requestId, userId) ==
  /\ svc.pc \in {"idle", "resolved", "rejected"}
  /\ svc' = Awaiting([IdleService EXCEPT !.op = "declineFriendRequest",
                                         !.requestId = requestId,
                                         !.userId = userId],
                     "friend_requests",
                     << SelectCall(Some("*")),
                        FilterCall("eq", "id", requestId),
                        FilterCall("eq", "recipient_id", userId),
                        PlainCall("single") >>,
                     "select")
  /\ UNCHANGED <<env, storage, location, builder, log, execs, nextExec, outcome,
                 provider, db, page>>

DeclineAnswered(resp) ==
  \E now \in Timestamps :
    /\ svc.op = "declineFriendRequest"
    /\ svc.pc \in {"select", "update"}
    /\ svc' = DeclineStep(svc, AfterFetch(resp), now)
    /\ SdkSettles(resp)

\* the call, up to the await of the first delete
RemoveFriend(userId, friendId) ==
  /\ svc.pc \in {"idle", "resolved", "rejected"}
  /\ svc' = Awaiting([IdleService EXCEPT !.op = "removeFriend",
                                         !.userId = userId,
                                         !.args = <<userId, friendId>>],
                     "friendships",
                     << PlainCall("delete"),
                        FilterCall("eq", "user_id", userId),
                        FilterCall("eq", "friend_id", friendId) >>,
                     "delete")
  /\ UNCHANGED <<env, storage, location, builder, log, execs, nextExec, outcome,
                 provider, db, page>>

RemoveAnswered(resp) ==
  /\ svc.op = "removeFriend"
  /\ svc.pc \in {"delete", "deleteBack"}
  /\ svc' = RemoveStep(svc, AfterFetch(resp))
  /\ SdkSettles(resp)

----------------------------------------------------------------------------
(* friendService.sendFriendRequest *)

Usernames == {UserRow(u).username : u \in Users} \cup {"nobody"}

\* the call, up to the await of the recipient
SendFriendRequest(requesterId, recipientUsername) ==
  /\ svc.pc \in {"idle", "resolved", "rejected"}
  /\ svc' = Awaiting([IdleService EXCEPT !.op = "sendFriendRequest",
                                         !.userId = requesterId,
                                         !.args = <<requesterId, recipientUsername>>],
                     "users",
                     << SelectCall(Some("*")),
                        FilterCall("eq", "username", recipientUsername),
                        PlainCall("single") >>,
                     "recipient")
  /\ UNCHANGED <<env, storage, location, builder, log, execs, nextExec, outcome,
                 provider, db, page>>

SendAnswered(resp) ==
  /\ svc.op = "sendFriendRequest"
  /\ svc.pc \in {"recipient", "existingRequest", "existingFriendship", "insert"}
  /\ svc' = SendStep(svc, AfterFetch(resp))
  /\ SdkSettles(resp)

----------------------------------------------------------------------------
(* Dashboard.addBookToCollection *)

\* the handler, up to its first await or, when the chain throws, to its end
AddBookToCollection ==
  /\ svc.pc \in {"idle", "resolved", "rejected"}
  /\ provider.mounted
  /\ provider.user # Null
  /\ page.bookDetails # Undefined
  /\ svc' =
       IF MissingMethod(UpsertBook(page.bookDetails[1])) # Undefined
         THEN [IdleService EXCEPT
                 !.op = "addBookToCollection", !.pc = "resolved",
                 !.userId = provider.user,
                 !.error = Some(TypeError(
                     MissingMethod(UpsertBook(page.bookDetails[1]))[1]
                       \o " is not a function"))]
       ELSE IF ConfigurationError(env) # Undefined
         THEN [IdleService EXCEPT !.op = "addBookToCollection", !.pc = "resolved",
                                  !.userId = provider.user,
                                  !.error = ConfigurationError(env)]
       ELSE Awaiting([IdleService EXCEPT !.op = "addBookToCollection",
                                         !.userId = provider.user],
                     "books", UpsertBook(page.bookDetails[1]), "upsert")
  /\ page' =
       IF \/ MissingMethod(UpsertBook(page.bookDetails[1])) # Undefined
          \/ ConfigurationError(env) # Undefined
         THEN [page EXCEPT !.toast = Some("Error adding book")]
       ELSE page
  /\ UNCHANGED <<env, storage, location, builder, log, execs, nextExec, outcome,
                 provider, db>>

\* an awaited query of the handler settles
AddBookAnswered(resp) ==
  /\ svc.op = "addBookToCollection"
  /\ svc.pc \in {"upsert", "insert"}
  /\ svc' = AddBookStep(svc, page, AfterFetch(resp)).svc
  /\ page' = AddBookStep(svc, page, AfterFetch(resp)).page
  /\ storage' = IF AfterFetch(resp).authFailure THEN Undefined ELSE storage
  /\ location' = IF AfterFetch(resp).authFailure THEN "/auth" ELSE location
  /\ provider' = IF AfterFetch(resp).authFailure
                   THEN handleAuthChange(provider, Null) ELSE provider
  /\ db' = Executed(db, svc.sent[Len(svc.sent)].body, resp)
  /\ UNCHANGED <<env, builder, log, execs, nextExec, outcome>>

\* the toast is dismissed
DismissToast ==
  /\ page.toast # Undefined
  /\ page' = [page EXCEPT !.toast = Undefined]
  /\ UNCHANGED <<env, storage, location, builder, log, execs, nextExec, outcome,
                 provider, svc, db>>

----------------------------------------------------------------------------
(* The loaders of the Dashboard *)

\* what the query that s awaits is answered with
AnswersOf(s) ==
  IF s.sent = <<>> THEN {}
  ELSE {Served(db, s.sent[Len(s.sent)].body).response} \cup Faults

\* what the SDK and the backend do when the query that s awaits settles
PageSettles(s, resp) ==
  /\ storage' = IF AfterFetch(resp).authFailure THEN Undefined ELSE storage
  /\ location' = IF AfterFetch(resp).authFailure THEN "/auth" ELSE location
  /\ provider' = IF AfterFetch(resp).authFailure
                   THEN handleAuthChange(provider, Null) ELSE provider
  /\ db' = Executed(db, s.sent[Len(s.sent)].body, resp)
  /\ UNCHANGED <<env, builder, log, execs, nextExec, outcome, svc>>

\* the effect on [user]: loadDashboardData() and loadFriendData() are
\* called, each up to its first await
DashboardEffect ==
  /\ provider.mounted
  /\ provider.user # Null
  /\ page.load.pc = "idle"
  /\ page.friendData = "idle"
  /\ page' = FriendDataCall(LoadCall(page, provider.user), provider.user)
  /\ UNCHANGED <<env, storage, location, builder, log, execs, nextExec, outcome,
                 provider, svc, db>>

\* an awaited query of loadDashboardData settles
LoadAnswered(resp) ==
  /\ page.load.pc \in {"user_books", "books", "friendships", "ownerLendings",
                       "borrowerLendings"}
  /\ page' = LoadStep(page, AfterFetch(resp))
  /\ PageSettles(page.load, resp)

\* an awaited query of ensureUserExists settles
EnsureSettles(resp) ==
  /\ page.friendData = "ensure"
  /\ page.ensure.pc \in {"select", "insert"}
  /\ page' = EnsureSettled([page EXCEPT !.ensure = EnsureStep(page.ensure,
                                                             AfterFetch(resp))])
  /\ PageSettles(page.ensure, resp)

\* an awaited query of getIncomingRequests settles
IncomingAnswered(resp) ==
  /\ page.friendData = "all"
  /\ page.incoming.pc \in {"requests", "users"}
  /\ page' = FriendDataLoaded(
               [page EXCEPT !.incoming = RequestsStep(page.incoming, AfterFetch(resp),
                                                      "requester_id")])
  /\ PageSettles(page.incoming, resp)

\* an awaited query of getOutgoingRequests settles
OutgoingAnswered(resp) ==
  /\ page.friendData = "all"
  /\ page.outgoing.pc \in {"requests", "users"}
  /\ page' = FriendDataLoaded(
               [page EXCEPT !.outgoing = RequestsStep(page.outgoing, AfterFetch(resp),
                                                      "recipient_id")])
  /\ PageSettles(page.outgoing, resp)

\* an awaited query of getFriends settles
GetFriendsAnswered(resp) ==
  /\ page.friendData = "all"
  /\ page.getFriends.pc \in {"friendships", "users"}
  /\ page' = FriendDataLoaded(
               [page EXCEPT !.getFriends = GetFriendsStep(page.getFriends,
                                                          AfterFetch(resp))])
  /\ PageSettles(page.getFriends, resp)

----------------------------------------------------------------------------
(* Specifications *)

\* the SDK in use: queries are built, executed and answered
Next ==
  \/ \E b \in BuilderIds : NewQuery(b)
  \/ \E b \in BuilderIds : Execute(b)
  \/ \E b \in BuilderIds : Then(b)
  \/ \E e \in ExecIds : FetchRejects(e)
  \/ \E e \in ExecIds : RespondOk(e)
  \/ \E e \in ExecIds : RespondAuthFailure(e)
  \/ \E e \in ExecIds : RespondError(e)
  \/ \E t \in Tokens : SetSession(t)
  \/ \E e \in Envs : SetEnv(e)

Spec == Init /\ [][Next]_vars

\* one builder configured call by call, then executed
NextBuild ==
  \/ \E b \in BuilderIds :
       \/ Select(b) \/ Eq(b) \/ Neq(b) \/ Gt(b) \/ Gte(b) \/ Lt(b) \/ Lte(b)
       \/ Like(b) \/ Ilike(b) \/ In(b) \/ Is(b) \/ Order(b) \/ Limit(b)
       \/ Offset(b) \/ Single(b) \/ Insert(b) \/ Update(b) \/ Delete(b)
  \/ \E b \in BuilderIds : Execute(b)

SpecBuild == InitBuild /\ [][NextBuild]_vars

\* one builder called through its four entry points, over any stored record
NextCalls ==
  \/ \E b \in BuilderIds : NewQuery(b)
  \/ \E b \in BuilderIds : Execute(b)
  \/ \E b \in BuilderIds : Then(b)
  \/ \E b \in BuilderIds : Catch(b)
  \/ \E b \in BuilderIds : Finally(b)
  \/ \E e \in ExecIds : RespondOk(e)
  \/ \E e \in ExecIds : RespondAuthFailure(e)
  \/ \E t \in Tokens : SetSession(t)

SpecCalls == InitCalls /\ [][NextCalls]_vars

\* the page: the AuthProvider mounts, sessions come and go, queries run
NextAuth ==
  \/ Mount
  \/ Unmount
  \/ \E item \in SessionRecords : StorageChanged(item)
  \/ SignOut
  \/ \E t \in Tokens : SetSession(t)
  \/ \E b \in BuilderIds : Execute(b)
  \/ \E e \in ExecIds : RespondOk(e)
  \/ \E e \in ExecIds : RespondAuthFailure(e)

SpecAuth == InitAuth /\ [][NextAuth]_vars

\* friendService called by the page, its queries answered by the transport
NextFriends ==
  \/ \E r \in RequestIds, u \in Users : AcceptFriendRequest(r, u)
  \/ \E resp \in RequestAnswers : AcceptSelected(resp)
  \/ \E resp \in QueryAnswers : AcceptUpdated(resp)
  \/ \E resp \in QueryAnswers : AcceptInserted(resp)

SpecFriends == InitFriends /\ [][NextFriends]_vars

\* the catalog of the friends' books, read from the backend
NextCatalog ==
  \/ \E userId \in {"u", "v"}, q \in SearchQueries : SearchFriendsCatalog(userId, q)
  \/ \E resp \in BackendAnswers : SearchAnswered(resp)
  \/ \E userId \in {"u", "v"}, bookId \in BookIds : GetFriendBookDetails(userId, bookId)
  \/ \E resp \in BackendAnswers : DetailsAnswered(resp)

SpecCatalog == InitCatalog /\ [][NextCatalog]_vars

\* the profile of the signed-in user looked up and created
NextUsers ==
  \/ \E u \in Users : EnsureUserExists(u, UserRow(u).email)
  \/ \E resp \in BackendAnswers \cup {Response(401, "")} : EnsureAnswered(resp)

SpecUsers == InitUsers /\ [][NextUsers]_vars

\* the Dashboard of a user who signs in and out and adds the fetched book;
\* no await of addBookToCollection is reached, so none is answered
NextBooks ==
  \/ Mount
  \/ Unmount
  \/ SignOut
  \/ \E t \in Tokens : SetSession(t)
  \/ AddBookToCollection
  \/ DismissToast

SpecBooks == InitBooks /\ [][NextBooks]_vars

\* friend requests sent by the page and answered by the backend
NextRequests ==
  \/ \E u \in {"u", "v"}, name \in Usernames : SendFriendRequest(u, name)
  \/ \E resp \in BackendAnswers : SendAnswered(resp)

SpecRequests == InitRequests /\ [][NextRequests]_vars

\* friend requests accepted and declined and friends removed, over the
\* backend
NextDecide ==
  \/ \E r \in RequestIds \cup {"r0"}, u \in Users : AcceptFriendRequest(r, u)
  \/ \E resp \in BackendAnswers : AcceptSelected(resp)
  \/ \E resp \in BackendAnswers : AcceptUpdated(resp)
  \/ \E resp \in BackendAnswers : AcceptInserted(resp)
  \/ \E r \in RequestIds \cup {"r0"}, u \in Users : DeclineFriendRequest(r, u)
  \/ \E resp \in BackendAnswers : DeclineAnswered(resp)
  \/ \E u \in Users, f \in Users : RemoveFriend(u, f)
  \/ \E resp \in BackendAnswers : RemoveAnswered(resp)

SpecDecide == InitDecide /\ [][NextDecide]_vars

\* the Dashboard of a signed-in user loads its data from the backend
NextDashboard ==
  \/ Mount
  \/ DashboardEffect
  \/ \E resp \in AnswersOf(page.load) : LoadAnswered(resp)
  \/ \E resp \in AnswersOf(page.ensure) : EnsureSettles(resp)
  \/ \E resp \in AnswersOf(page.incoming) : IncomingAnswered(resp)
  \/ \E resp \in AnswersOf(page.outgoing) : OutgoingAnswered(resp)
  \/ \E resp \in AnswersOf(page.getFriends) : GetFriendsAnswered(resp)

SpecDashboard == InitDashboard /\ [][NextDashboard]_vars

\* two builders alive at once, each configured and executed on its own
NextPair ==
  \/ \E b \in PairIds : NewQuery(b)
  \/ \E b \in PairIds : Eq(b)
  \/ \E b \in PairIds : Delete(b)
  \/ \E b \in PairIds : Execute(b)

SpecPair == InitPair /\ [][NextPair]_vars

----------------------------------------------------------------------------
(* Vocabulary of the properties *)

\* the executions whose request is with the transport
Requests == {e \in ExecIds : execs[e].pc = "fetching"}

\* the request body of execution e
Body(e) == execs[e].request[1].body

\* the configuration calls made on the builder that e executes
CallsOf(e) == log[execs[e].b]

IsFilterCall(c) == c.name \in FilterOperators

IsModeCall(c) == c.name \in ModeCalls

\* the filter entries a history asks for, in the order of the calls
FiltersOf(calls) ==
  LET f == SelectSeq(calls, IsFilterCall)
  IN  [i \in 1..Len(f) |->
         [column |-> f[i].column, operator |-> f[i].name, value |-> f[i].value]]

\* the mode declared last in a history; select when none was declared
LastMode(calls) ==
  LET m == SelectSeq(calls, IsModeCall)
  IN  IF m = <<>> THEN "select" ELSE m[Len(m)].name

IsOrderCall(c) == c.name = "order"

\* the ordering directives a history asks for, in the order of the calls;
\* a call that names no direction asks for ascending
OrdersOf(calls) ==
  LET o == SelectSeq(calls, IsOrderCall)
  IN  [i \in 1..Len(o) |->
         [column |-> o[i].column,
          ascending |-> o[i].ascending \in {Undefined, Some(TRUE)}]]

\* the argument of the last insert() of a history
LastInsert(calls) ==
  LET m == SelectSeq(calls, LAMBDA c : c.name = "insert")
  IN  m[Len(m)].values

\* the transport has answered the execution that settled last
Answered == outcome.response # Undefined

\* the answer was an HTTP response with this status range
AnsweredWith(statuses) ==
  /\ Answered
  /\ ~outcome.response[1].rejected
  /\ outcome.response[1].status \in statuses

\* the step settles execution e
Settles(e) == execs[e].pc = "fetching" /\ execs'[e].pc = "done"

\* the step is a call of execute(), through any entry point
Calls == nextExec' = nextExec + 1

----------------------------------------------------------------------------
(* Properties of execute() *)

\* C1: every call of execute() made while the deployment identifier or the
\* base service URL is absent is rejected with the configuration error, and
\* issues no request: the call is not in flight afterwards and counts no fetch.
C1_ConfigurationChecked ==
  [][ (Calls /\ (env.projectId = "" \/ env.backendUrl = ""))
        => /\ outcome'.pc = "rejected"
           /\ outcome'.error \in {Some(Error(MissingProjectId)),
                                  Some(Error(MissingServerUrl))}
           /\ outcome'.fetches = 0
           /\ outcome'.request = Undefined
           /\ execs'[nextExec].pc = "done"
           /\ execs'[nextExec].fetches = 0
           /\ \A e \in ExecIds : execs'[e].pc = "fetching" => execs[e].pc = "fetching"
    ]_vars

\* a call rejected for a missing server URL after an earlier call had been
\* dispatched: the check ran again on the second call
C1_Witness ==
  /\ outcome.pc = "rejected"
  /\ outcome.error = Some(Error(MissingServerUrl))
  /\ outcome.fetches = 0
  /\ \E e \in ExecIds : execs[e].fetches = 1

\* C2: when the transport answers 401 or 403, execute() rejects with the
\* session-expired error, the stored session is removed, one notification
\* (detail null) is dispatched by that execution, the page goes to /auth,
\* and the execution has made its single request and is over.
C2_AuthFailureTearsDown ==
  [][ \A e \in ExecIds :
        (Settles(e) /\ outcome'.response # Undefined
           /\ ~outcome'.response[1].rejected
           /\ outcome'.response[1].status \in {401, 403})
        => /\ outcome'.pc = "rejected"
           /\ outcome'.error = Some(Error(SessionExpired))
           /\ storage' = Undefined
           /\ outcome'.dispatched = <<"null">>
           /\ outcome'.redirected
           /\ location' = "/auth"
           /\ outcome'.fetches = 1
           /\ execs'[e].fetches = 1
           /\ nextExec' = nextExec
    ]_vars

\* a request that carried a stored session was answered 403
C2_Witness ==
  /\ AnsweredWith({403})
  /\ outcome.request[1].authorization = Some("Bearer t1")
  /\ storage = Undefined
  /\ location = "/auth"

\* C3: whenever the fetch itself fails, execute() rejects with the generic
\* connectivity message, never with the text of the underlying exception.
C3_NetworkErrorIsGeneric ==
  (Answered /\ outcome.response[1].rejected)
    => /\ outcome.pc = "rejected"
       /\ outcome.error[1].message = UnableToConnect
       /\ outcome.error[1].message # outcome.response[1].exception.message

\* C4: a 2xx response whose body is JSON resolves the call, through
\* execute() and through then(), to the parsed body, after one fetch.
C4_SuccessReturnsBody ==
  (AnsweredWith(200..299) /\ JsonParse(outcome.response[1].text).ok)
    => /\ outcome.via \in {"execute", "then"}
       /\ outcome.pc = "resolved"
       /\ outcome.value = Some(JsonParse(outcome.response[1].text))
       /\ outcome.error = Undefined
       /\ outcome.fetches = 1
       /\ outcome.settled = 1

\* the builder was executed through both entry points; the awaited one
\* resolved to the rows the server sent
C4_Witness ==
  /\ AnsweredWith({200})
  /\ outcome.via = "then"
  /\ outcome.pc = "resolved"
  /\ outcome.value[1].canon = RowsText
  /\ \E e \in ExecIds : execs[e].via = "execute" /\ execs[e].fetches = 1

\* C5: an execution invokes the transport at most once and delivers its
\* outcome exactly once, whatever the outcome; once it is over it makes no
\* further attempt.
C5_NoRetry ==
  /\ [](\A e \in ExecIds :
          /\ execs[e].fetches <= 1
          /\ execs[e].pc = "idle" => execs[e].fetches = 0 /\ execs[e].settled = 0
          /\ execs[e].pc = "fetching" => execs[e].fetches = 1 /\ execs[e].settled = 0
          /\ execs[e].pc = "done" => execs[e].settled = 1)
  /\ [](outcome.pc # "idle" => outcome.settled = 1 /\ outcome.fetches <= 1)
  /\ [][\A e \in ExecIds : execs[e].pc = "done" => execs'[e] = execs[e]]_vars

\* every call of the run is over, the last one failed on a server error
C5_Witness ==
  /\ nextExec > MaxExec
  /\ \A e \in ExecIds : execs[e].pc = "done"
  /\ AnsweredWith({500})
  /\ outcome.pc = "rejected"
  /\ outcome.fetches = 1

----------------------------------------------------------------------------
(* Properties of the request body *)

\* C6: in every request body that has a filters array, the array holds one
\* entry per filter call made on the builder, with the operator named by
\* the call and the column and value supplied, in the order of the calls.
C6_FiltersInCallOrder ==
  \A e \in Requests :
    /\ builder[execs[e].b].filtersList = FiltersOf(CallsOf(e))
    /\ Body(e).filters # Undefined => Body(e).filters = Some(FiltersOf(CallsOf(e)))
    /\ Body(e).operation # Some("insert") => Body(e).filters # Undefined

\* a request whose filters are the two that were added, in that order
C6_Witness ==
  \E e \in Requests :
    /\ CallsOf(e) = <<FilterCall("like", "status", "%a%"), FilterCall("in", "id", "[1,2]")>>
    /\ Body(e).filters =
         Some(<<QueryFilter("status", "like", "%a%"), QueryFilter("id", "in", "[1,2]")>>)

\* C7: the operation of every request body is the mode declared by the
\* last of select(), insert(), update(), delete() called on the builder,
\* and select when none was called.
C7_OperationIsLastMode ==
  \A e \in Requests :
    /\ Body(e).operation \in {Some(m) : m \in ModeCalls}
    /\ Body(e).operation = Some(LastMode(CallsOf(e)))

\* insert(...) followed by select() was sent as a select
C7_Witness ==
  \E e \in Requests :
    /\ Len(CallsOf(e)) = 2
    /\ CallsOf(e)[1].name = "insert"
    /\ CallsOf(e)[2].name = "select"
    /\ Body(e).operation = Some("select")

\* C8: an insert body carries the column selector only when the builder
\* holds a selector other than the default '*'; otherwise it has no select
\* field.
C8_InsertSelectorOnlyIfSet ==
  \A e \in Requests :
    Body(e).operation = Some("insert")
    => (Body(e).select # Undefined => builder[execs[e].b].selectClause # "*")

\* an eq() call was followed by insert(), and no mode was declared after it
InsertAfterEq(calls) ==
  \E i, j \in 1..Len(calls) :
    /\ i < j
    /\ calls[i].name = "eq"
    /\ calls[j].name = "insert"
    /\ \A k \in (j + 1)..Len(calls) : ~IsModeCall(calls[k])

\* C9 as stated: after eq() and then insert() the mode is insert, the
\* filters are still on the builder, and the insert body carries them.
C9_StaleFiltersInInsertBody ==
  \A e \in Requests :
    InsertAfterEq(CallsOf(e))
    => /\ Body(e).operation = Some("insert")
       /\ builder[execs[e].b].filtersList = FiltersOf(CallsOf(e))
       /\ Body(e).filters = Some(FiltersOf(CallsOf(e)))

\* C9 as amended: after eq() and then insert() the mode is insert and the
\* filters are still on the builder, but the insert body has no filters.
C9_StaleFiltersKeptNotSent ==
  \A e \in Requests :
    InsertAfterEq(CallsOf(e))
    => /\ Body(e).operation = Some("insert")
       /\ builder[execs[e].b].filtersList = FiltersOf(CallsOf(e))
       /\ builder[execs[e].b].filtersList # <<>>
       /\ Body(e).filters = Undefined

\* eq('id', 1) and then insert({a:1}), executed
C9_Witness ==
  \E e \in Requests :
    /\ CallsOf(e) = <<FilterCall("eq", "id", "1"), InsertCall(ObjectOf("{a:1}"))>>
    /\ Body(e).operation = Some("insert")

\* C10: the values of an insert body are the one-element sequence of the
\* field map given to insert(), or the sequence given to it, unchanged.
C10_InsertValuesNormalised ==
  \A e \in Requests :
    Body(e).operation = Some("insert")
    => LET given == LastInsert(CallsOf(e))
       IN  /\ ~given.isArray =>
                Body(e).values = Some([isArray |-> TRUE, obj |-> "", elems |-> <<given.obj>>])
           /\ given.isArray =>
                Body(e).values = Some([isArray |-> TRUE, obj |-> "", elems |-> given.elems])

\* insert of an array of two rows and then of one row: the row is sent as
\* a one-element array
C10_Witness ==
  \E e \in Requests :
    /\ CallsOf(e) = <<InsertCall(ArrayOf(<<"{b:2}", "{a:1}">>)), InsertCall(ObjectOf("{a:1}"))>>
    /\ Body(e).values = Some(ArrayOf(<<"{a:1}">>))

\* C11: a builder on which nothing was called, and one on which only
\* select() without argument was called, is sent as: operation select,
\* select "*", no filters, no ordering, no limit key, no offset key, single
\* false, and no values.
C11_DefaultsSerialised ==
  \A e \in Requests :
    CallsOf(e) \in {<<>>, <<SelectCall(Undefined)>>}
    => Body(e) = [ table     |-> Some(builder[execs[e].b].tableName),
                   operation |-> Some("select"),
                   values    |-> Undefined,
                   select    |-> Some("*"),
                   filters   |-> Some(<<>>),
                   order     |-> Some(<<>>),
                   limit     |-> Undefined,
                   offset    |-> Undefined,
                   single    |-> Some(FALSE) ]

\* two requests of a builder of friendships on which only select() was called
C11_Witness ==
  /\ \A e \in ExecIds : e \in Requests /\ CallsOf(e) = <<SelectCall(Undefined)>>
  /\ Body(1).table = Some("friendships")
  /\ Body(1).select = Some("*")

\* C12: the builder's ordering list is one directive per order() call, in
\* the order of the calls, ascending when the call names no direction; it is
\* the order array of every select body.
C12_OrderInCallOrder ==
  \A e \in Requests :
    /\ builder[execs[e].b].orderList = OrdersOf(CallsOf(e))
    /\ Body(e).operation = Some("select")
         => Body(e).order = Some(OrdersOf(CallsOf(e)))

\* order('status') and then order('id', {ascending: false}), executed
C12_Witness ==
  \E e \in Requests :
    /\ CallsOf(e) = <<OrderCall("status", Undefined), OrderCall("id", Some(FALSE))>>
    /\ Body(e).order = Some(<<[column |-> "status", ascending |-> TRUE],
                              [column |-> "id", ascending |-> FALSE]>>)

----------------------------------------------------------------------------
(* Properties of builder instances *)

\* the body execute() would send for builder b as it is configured now
BodyOf(b) == JsonStringify(Payload(builder[b]))

\* C13: two builders of the same collection with the same history of
\* configuration calls have the same request body, as configured and as
\* sent; and a step that makes no call on a builder changes neither its
\* fields, nor its body, nor a request of it that is in flight.
C13_BuildersIndependent ==
  /\ [](\A b1, b2 \in DOMAIN builder :
          (builder[b1].tableName = builder[b2].tableName /\ log[b1] = log[b2])
            => BodyOf(b1) = BodyOf(b2))
  /\ [](\A e1, e2 \in Requests :
          (Body(e1).table = Body(e2).table /\ CallsOf(e1) = CallsOf(e2))
            => Body(e1) = Body(e2))
  /\ [][\A b \in DOMAIN builder :
          log'[b] = log[b] => builder'[b] = builder[b] /\ BodyOf(b)' = BodyOf(b)]_vars
  /\ [][\A e \in Requests : e \in Requests' => Body(e)' = Body(e)]_vars

\* two builders of users were each given eq('status', 1) and delete(), and
\* both were executed: two requests with one body
C13_Witness ==
  /\ log["q1"] = <<FilterCall("eq", "status", "1"), PlainCall("delete")>>
  /\ log["q2"] = log["q1"]
  /\ Requests = {1, 2}
  /\ execs[1].b # execs[2].b
  /\ Body(1) = Body(2)
  /\ Body(1).filters = Some(<<QueryFilter("status", "eq", "1")>>)

----------------------------------------------------------------------------
(* Properties of the credential *)

\* the stored item is the JSON text of a record that has an access_token
HoldsCredential(item) ==
  /\ item # Undefined
  /\ JsonParse(item[1]).ok
  /\ JsonParse(item[1]).type = "object"
  /\ JsonParse(item[1]).access_token # ""

\* C14: a call made with the environment configured sends its request
\* whatever the storage key holds; the request carries an Authorization
\* header exactly when the key holds the JSON text of a record with an
\* access_token, and the header is then "Bearer " followed by that token.
C14_BearerIffStoredToken ==
  [][ (Calls /\ ConfigurationError(env) = Undefined)
        => /\ execs'[nextExec].pc = "fetching"
           /\ execs'[nextExec].error = Undefined
           /\ LET sent == execs'[nextExec].request[1]
              IN  /\ sent.authorization # Undefined <=> HoldsCredential(storage)
                  /\ HoldsCredential(storage)
                       => sent.authorization =
                            Some("Bearer " \o JsonParse(storage[1]).access_token)
    ]_vars

\* the key held a text that is no JSON when the first call was made and a
\* session when the second was made: both requests are out, the first
\* without a credential (and with a warning logged), the second with one
C14_Witness ==
  /\ Requests = {1, 2}
  /\ execs[1].request[1].authorization = Undefined
  /\ execs[1].console = <<"warn">>
  /\ execs[2].request[1].authorization = Some("Bearer t1")

\* the step settles an execution on an HTTP 401 or 403
SettlesOnAuthFailure ==
  /\ \E e \in ExecIds : Settles(e)
  /\ outcome'.response # Undefined
  /\ ~outcome'.response[1].rejected
  /\ outcome'.response[1].status \in {401, 403}

\* C15: a call of execute(), and the settling of an execution on anything
\* but a 401 or 403, leaves the stored session record and the location as
\* they were, and the execution dispatches no notification and does not
\* redirect.
C15_SessionKeptUnlessAuthFailure ==
  [][ /\ Calls
        => /\ storage' = storage
           /\ location' = location
           /\ execs'[nextExec].pc = "done"
                => outcome'.dispatched = <<>> /\ ~outcome'.redirected
      /\ ((\E e \in ExecIds : Settles(e)) /\ ~SettlesOnAuthFailure)
        => /\ storage' = storage
           /\ location' = location
           /\ outcome'.dispatched = <<>>
           /\ ~outcome'.redirected
    ]_vars

\* a call made over a stored record that is no JSON was answered 404: the
\* record is still there and the page has not moved
C15_Witness ==
  /\ AnsweredWith({404})
  /\ outcome.console = <<"warn", "warn">>
  /\ outcome.request[1].authorization = Undefined
  /\ storage = Some(HtmlText)
  /\ location = "/dashboard"

----------------------------------------------------------------------------
(* Properties of the configuration methods *)

\* the step is a configuration call on builder b
Configures(b) == log'[b] # log[b]

\* the executions that have invoked the transport
Fetched == {e \in ExecIds : execs[e].fetches > 0}

\* C16: a configuration call changes the fields of the builder it is made
\* on, as its method says, and nothing else: no execution starts or moves,
\* storage, location and environment stay; the builder is at all times its
\* table's fresh builder with the calls of its history applied in order, so
\* each call acted on the instance the previous one returned.  The transport
\* is invoked only by a step that calls execute(), then(), catch() or
\* finally().
C16_ConfigurationIsLocal ==
  /\ [][\A b \in DOMAIN builder :
          Configures(b)
            => /\ log' = [log EXCEPT ![b] = Append(log[b], log'[b][Len(log'[b])])]
               /\ builder' = [builder EXCEPT
                                ![b] = Apply(builder[b], log'[b][Len(log'[b])])]
               /\ execs' = execs
               /\ nextExec' = nextExec
               /\ outcome' = outcome
               /\ storage' = storage
               /\ location' = location
               /\ env' = env]_vars
  /\ [](\A b \in DOMAIN builder :
          builder[b] = ApplyChain(from(builder[b].tableName), log[b]))
  /\ [][Fetched' # Fetched
          => /\ Calls
             /\ Fetched' = Fetched \cup {nextExec}
             /\ execs'[nextExec].via \in {"execute", "then", "catch", "finally"}
             /\ log' = log]_vars

\* insert([]) and then limit(5) were called and nothing was executed: no
\* execution exists
C16_Witness ==
  /\ log["q1"] = <<InsertCall(ArrayOf(<<>>)), CountCall("limit", 5)>>
  /\ builder["q1"].limitValue = Some(5)
  /\ nextExec = 1
  /\ Fetched = {}
  /\ storage = Undefined

----------------------------------------------------------------------------
(* Properties of the error paths *)

\* C17: an execution answered with a status outside 200..299 other than
\* 401 and 403 is rejected with an error and has no value; it logged once
\* for the failure, with console.warn when the status is in 400..499 and
\* with console.error when it is in 500..599.
C17_ErrorsRejectAndLog ==
  (Answered /\ ~outcome.response[1].rejected
     /\ ~Ok(outcome.response[1].status)
     /\ outcome.response[1].status \notin {401, 403})
    => LET status == outcome.response[1].status
           logged == outcome.console
       IN  /\ outcome.pc = "rejected"
           /\ outcome.value = Undefined
           /\ outcome.error # Undefined
           /\ outcome.error[1].type = "Error"
           /\ outcome.settled = 1
           /\ logged # <<>>
           /\ status \in 400..499 => logged[Len(logged)] = "warn"
           /\ status \in 500..599 => logged[Len(logged)] = "error"

\* a 400 with an empty JSON object was rejected as 'Query failed' and
\* logged as a warning; an earlier call had been answered too
C17_Witness ==
  /\ AnsweredWith({400})
  /\ outcome.pc = "rejected"
  /\ outcome.error = Some(Error(QueryFailed))
  /\ outcome.console = <<"warn">>
  /\ \A e \in ExecIds : execs[e].pc = "done"

----------------------------------------------------------------------------
(* Properties of the entry points *)

\* C18: with the environment configured, every call of execute(), then(),
\* catch() or finally() starts an execution of its own that invokes the
\* transport once, whatever executions of the same builder are in flight or
\* over, and leaves those as they are; so the executions that fetched are
\* as many as the calls made.
C18_EveryCallFetches ==
  /\ [][Calls
          => /\ execs'[nextExec].pc = "fetching"
             /\ execs'[nextExec].fetches = 1
             /\ execs'[nextExec].via \in {"execute", "then", "catch", "finally"}
             /\ execs'[nextExec].request = Some(Request(builder[execs'[nextExec].b], env, storage))
             /\ \A e \in ExecIds \ {nextExec} : execs'[e] = execs[e]]_vars
  /\ [](Cardinality(Fetched) = nextExec - 1)
  /\ [](\A e \in Fetched : execs[e].fetches = 1)

\* catch() and then finally() were called on one configured builder while
\* nothing had been answered: two requests with the same content are out
C18_Witness ==
  /\ Requests = {1, 2}
  /\ execs[1].b = execs[2].b
  /\ execs[1].via = "catch"
  /\ execs[2].via = "finally"
  /\ execs[1].request = execs[2].request
  /\ CallsOf(1) # <<>>

----------------------------------------------------------------------------
(* Properties of the AuthProvider *)

\* the listener of the mounted component received a notification in this step
Notified == provider.mounted /\ provider'.mounted /\ provider'.tick # provider.tick

\* C19: when an execution settles on a 401 or 403 while the AuthProvider
\* is mounted, the component has received the notification with detail
\* null and holds session = null and user = null; after every notification
\* its listener receives, its session is the notified one and its user is
\* that session's user, null for a null session; and its user is at all
\* times the user of the session it holds.
C19_ProviderFollowsNotifications ==
  /\ [][(SettlesOnAuthFailure /\ provider.mounted)
          => /\ Notified
             /\ provider'.heard = Some(Null)
             /\ provider'.session = Null
             /\ provider'.user = Null]_vars
  /\ [][Notified
          => /\ provider'.session = provider'.heard[1]
             /\ provider'.user = SessionUser(provider'.heard[1])
             /\ provider'.heard[1] = Null => provider'.user = Null]_vars
  /\ [](provider.mounted => provider.user = SessionUser(provider.session))

\* a query sent with a stored session was answered 401; the mounted
\* component was notified of the null session and holds nothing
C19_Witness ==
  /\ provider.mounted
  /\ provider.heard = Some(Null)
  /\ provider.session = Null
  /\ provider.user = Null
  /\ AnsweredWith({401})
  /\ outcome.request[1].authorization = Some("Bearer t1")
  /\ outcome.dispatched = <<"null">>
  /\ storage = Undefined

----------------------------------------------------------------------------
(* Properties of friendService *)

\* C20: when acceptFriendRequest(requestId, userId) has returned and the
\* request it read goes from A to B = userId, it has sent three queries in
\* this order: the select of the request, an update of friend_requests
\* setting status accepted where id = requestId, and one insert on
\* friendships whose values are the rows (A, B, accepted), (B, A, accepted).
C20_AcceptCreatesBothDirections ==
  (svc.op = "acceptFriendRequest" /\ svc.pc = "resolved"
     /\ svc.request # Undefined
     /\ svc.request[1].recipient_id = svc.userId)
    => LET A == svc.request[1].requester_id
           B == svc.request[1].recipient_id
       IN  /\ Len(svc.sent) = 3
           /\ svc.sent[2].body.table = Some("friend_requests")
           /\ svc.sent[2].body.operation = Some("update")
           /\ svc.sent[2].body.values[1].obj.status = "accepted"
           /\ svc.sent[2].body.filters = Some(<<QueryFilter("id", "eq", svc.requestId)>>)
           /\ svc.sent[3].body.table = Some("friendships")
           /\ svc.sent[3].body.operation = Some("insert")
           /\ svc.sent[3].body.values =
                Some(ArrayOf(<< [user_id |-> A, friend_id |-> B, status |-> "accepted"],
                                [user_id |-> B, friend_id |-> A, status |-> "accepted"] >>))

\* v accepted the request r1 that u had sent
C20_Witness ==
  /\ svc.op = "acceptFriendRequest"
  /\ svc.pc = "resolved"
  /\ svc.requestId = "r1"
  /\ svc.userId = "v"
  /\ svc.request[1].requester_id = "u"
  /\ svc.request[1].recipient_id = "v"
  /\ Len(svc.sent) = 3


\* C26: an execution that settles on a 401 or 403 leaves the stored session
\* in place when that session's token is not the one its request was sent
\* with: a session stored by a sign-in after the request was issued
\* survives the late response.
C26_LateFailureKeepsFreshSession ==
  [][ \A e \in ExecIds :
        ( /\ Settles(e)
          /\ SettlesOnAuthFailure
          /\ HoldsCredential(storage)
          /\ execs[e].request[1].authorization
               # Some("Bearer " \o JsonParse(storage[1]).access_token) )
          => storage' = storage ]_vars

\* the users that the backend holds as accepted friends of userId
AcceptedFriends(userId) ==
  { row.friend_id :
      row \in {r \in db.friendships : r.user_id = userId /\ r.status = "accepted"} }

\* C21: every entry that searchFriendsCatalog(userId, q) or
\* getFriendBookDetails(userId, bookId) returns is a book owned by a user
\* who is the friend_id of an accepted friendship row of userId held by the
\* backend; when userId has no accepted friendship the result is empty and
\* no query on user_books or books was sent.
C21_CatalogOfFriendsOnly ==
  (svc.op \in {"searchFriendsCatalog", "getFriendBookDetails"}
     /\ svc.pc = "resolved")
    => /\ \A i \in DOMAIN svc.result[1] :
            /\ svc.result[1][i].owner_id \in AcceptedFriends(svc.userId)
            /\ [ user_id |-> svc.result[1][i].owner_id,
                 book_id |-> svc.result[1][i].id ] \in db.user_books
       /\ AcceptedFriends(svc.userId) = {}
            => /\ svc.result[1] = <<>>
               /\ \A i \in DOMAIN svc.sent :
                    svc.sent[i].body.table \notin {Some("user_books"), Some("books")}

\* u's friend owns a book, a user who is no friend of u owns one too, and
\* the catalog returned the friend's only
C21_Witness ==
  /\ svc.op \in {"searchFriendsCatalog", "getFriendBookDetails"}
  /\ svc.pc = "resolved"
  /\ svc.userId = "u"
  /\ Len(svc.result[1]) = 1
  /\ \E row \in db.user_books : row.user_id \notin AcceptedFriends("u") \cup {"u"}


\* C22: ensureUserExists(userId, email) that finds no user by id sends, as
\* its second request, an insert on users whose values are the one row
\* (id, email, username, display_name); when the lookup finds the user it
\* returns that row and sends nothing more.
C22_EnsureInsertsMissingUser ==
  svc.op = "ensureUserExists"
    => /\ Len(svc.sent) >= 2
            => /\ svc.sent[2].body.table = Some("users")
               /\ svc.sent[2].body.operation = Some("insert")
               /\ svc.sent[2].body.values =
                    Some(ArrayOf(<<NewUser(svc.args[1], svc.args[2])>>))
       /\ (svc.pc = "resolved" /\ UserRow(svc.userId) \in db.users)
            => /\ svc.result = Some(UserRow(svc.userId))
               /\ Len(svc.sent) = 1


\* C23: when addBookToCollection has ended for a signed-in user with fetched
\* book details, it has sent a request that creates or fetches the book by
\* ISBN and then an insert on user_books with the user's id, the book's id
\* and is_read = false, and the toast is "Book added!".
C23_BookAdded ==
  (svc.op = "addBookToCollection" /\ svc.pc = "resolved")
    => /\ page.toast \in {Undefined, Some("Book added!")}
       /\ Len(svc.sent) = 2
       /\ svc.sent[1].body.table = Some("books")
       /\ svc.sent[2].body.table = Some("user_books")
       /\ svc.sent[2].body.operation = Some("insert")
       /\ \E b \in BookIds :
            svc.sent[2].body.values =
              Some(ArrayOf(<<[ user_id |-> svc.userId, book_id |-> b,
                               is_read |-> FALSE ]>>))


\* the call in progress has ended
Finished == svc.pc \in {"resolved", "rejected"}

\* it ended on a failure of the transport or of the server
Faulted ==
  /\ svc.error # Undefined
  /\ svc.error[1].message \in {"not found", SessionExpired, UnableToConnect}

\* the error that the checks of sendFriendRequest lead to over the tables of
\* the backend, in their order; "" when every check passes
SendRefusal(requesterId, username) ==
  LET named == {row \in db.users : row.username = username}
  IN  IF named = {} THEN "User not found"
      ELSE LET recipient == CHOOSE row \in named : TRUE
           IN  IF recipient.id = requesterId
                 THEN "You cannot send a friend request to yourself"
               ELSE IF \E r \in db.friend_requests :
                         r.requester_id = requesterId /\ r.recipient_id = recipient.id
                 THEN "Friend request already sent"
               ELSE IF [ user_id |-> requesterId, friend_id |-> recipient.id,
                         status |-> "accepted" ] \in db.friendships
                 THEN "Already friends"
               ELSE ""

\* the requests of the call that insert into a table
InsertsInto(table) ==
  { i \in DOMAIN svc.sent :
      /\ svc.sent[i].body.table = Some(table)
      /\ svc.sent[i].body.operation = Some("insert") }

\* C24: sendFriendRequest(requesterId, username) that met no fault fails
\* with the error of the first check that applies (user not found, request
\* to oneself, request already sent in any status, already friends) and has
\* then sent no insert on friend_requests; when every check passes it has
\* sent an insert carrying (requester_id, recipient_id, status pending).
C24_SendChecksThenInserts ==
  (svc.op = "sendFriendRequest" /\ Finished /\ ~Faulted)
    => IF SendRefusal(svc.args[1], svc.args[2]) # ""
         THEN /\ svc.pc = "rejected"
              /\ svc.error = Some(Error(SendRefusal(svc.args[1], svc.args[2])))
              /\ InsertsInto("friend_requests") = {}
       ELSE \E i \in InsertsInto("friend_requests") :
              svc.sent[i].body.values =
                Some(ArrayOf(<<[ requester_id |-> svc.args[1],
                                 recipient_id |-> svc.locals.recipient.id,
                                 status |-> "pending" ]>>))


\* the requests of the call that update a table
UpdatesOf(table) ==
  { i \in DOMAIN svc.sent :
      /\ svc.sent[i].body.table = Some(table)
      /\ svc.sent[i].body.operation = Some("update") }

\* the backend holds a request with the id and the recipient of the call
RequestOfRecipient ==
  \E r \in db.friend_requests : r.id = svc.requestId /\ r.recipient_id = svc.userId

C27_DecidedStaysDecided ==
  (svc.op \in {"acceptFriendRequest", "declineFriendRequest"}
     /\ svc.request # Undefined
     /\ svc.request[1].status \in {"accepted", "declined"})
    => /\ \A i \in UpdatesOf("friend_requests") :
            svc.sent[i].body.values[1].obj.status = svc.request[1].status
       /\ InsertsInto("friendships") = {}

\* C28: whenever no call is in progress, friendships holds an accepted row
\* (a, b) only with the accepted row (b, a), and both rows of every request
\* marked accepted.
C28_FriendshipsSymmetric ==
  Finished
    => /\ \A row \in db.friendships :
            row.status = "accepted"
              => [ user_id |-> row.friend_id, friend_id |-> row.user_id,
                   status |-> "accepted" ] \in db.friendships
       /\ \A r \in db.friend_requests :
            r.status = "accepted"
              => BothRows(r.requester_id, r.recipient_id) \subseteq db.friendships


\* both loaders have completed and none of their queries failed
LoadedWithoutError ==
  /\ page.load.pc = "resolved"
  /\ page.friendData = "resolved"
  /\ ~page.warned
  /\ page.load.console = <<>>
  /\ page.incoming.console = <<>>
  /\ page.outgoing.console = <<>>
  /\ page.getFriends.console = <<>>

\* C29: when loadDashboardData and loadFriendData have both completed
\* without error over tables that hold every accepted friendship as the two
\* rows (a, b) and (b, a), the Dashboard's friendsCount is the number of
\* friends that getFriends returned for the user.
C29_FriendsCountIsFriends ==
  LoadedWithoutError
    => /\ page.friendsCount = Len(page.getFriends.result[1])
       /\ page.friendsCount = Len(page.friends)

====
